---- MODULE Spec2Model ----
(***************************************************************************)
(* Model of the scheduled-synchronisation core of boxscore-backend:       *)
(* the cron_runs / cron_jobs tables, the cancellation-token registry       *)
(* (app/cron/cancellation.py), the two executors run_job_now and           *)
(* run_cron_job and the stuck-run sweep (app/cron/scheduler.py), the       *)
(* stop / delete endpoints (app/api/admin_cron.py) and the job bodies'     *)
(* reconciliation writes (app/services/cron_service.py).                   *)
(*                                                                         *)
(* Atomicity.  Every coroutine runs on one asyncio event loop, so the      *)
(* code between two awaits is atomic.  An action of this model is one      *)
(* database round trip (the awaited select or commit) followed by the      *)
(* synchronous code up to the next await.                                  *)
(*                                                                         *)
(* Sessions.  A select loads a row into the session (snap); assignments    *)
(* change the session's copy (cur); commit sends an UPDATE holding exactly *)
(* the columns whose value differs from the loaded one, and fails when the *)
(* row has been deleted in the meantime.                                   *)
(* A job body reports progress by a flush in its own session; the report   *)
(* reaches the table with the body's next commit and is rolled back when   *)
(* the body leaves without one.                                            *)
(*                                                                         *)
(* Specifications.  Spec follows runs through the executors, stop, delete  *)
(* and the sweep; SpecSweep follows the sweep over every run state;        *)
(* SpecSync follows one run of one job body over the reconciled tables;    *)
(* SpecTokens follows calls of the token registry.                         *)
(***************************************************************************)
EXTENDS Integers, Sequences, FiniteSets, TLC

\* ---------------------------------------------------------------- bounds
MaxRuns == 2          \* run ids 1..MaxRuns
FullRuns == 1         \* runs that Spec follows through every operation
MaxClock == 3         \* the clock runs over 0..MaxClock ticks
MaxBodySteps == 1     \* progress reports one body makes at most
MaxItems == 1         \* items_updated a body reports at most
NumJobs == 1          \* rows of cron_jobs
MaxEntities == 1      \* rows of each reconciled table
MaxValue == 1         \* upstream scores, counts and ranks range over 0..MaxValue
MaxTokens == 3        \* token objects SpecTokens creates at most
NumTeams == 2         \* rows of teams

\* ------------------------------------------------------ program constants
TickSeconds == 30 * 60       \* seconds per clock tick
timeout_seconds == 30 * 60   \* timeout_seconds = 30 * 60
StuckSeconds == 60 * 60      \* timedelta(hours=1); is_stuck = elapsed_seconds > 3600
Null == -1            \* None in an integer / datetime column

RunIds == 1..MaxRuns
JobIds == 1..NumJobs
Final == {"done", "raised"}   \* the executor has returned, or has raised

NoneMsg == "<None>"
StoppedByUser == "Stopped by user"
DeletedByUser == "Deleted by user"
StuckCleanedUp == "Stuck job cleaned up"
StuckMessage == "Job marked as failed - was stuck in running state for over 1 hour"
TimeoutMessage == "Job timed out after 1800 seconds"   \* f"Job timed out after {timeout_seconds} seconds"
JobCancelledByUser == "Job cancelled by user"
UnknownError == "Unknown error"
BodyError == "body error"
TypeErrorMessage == "can't subtract offset-naive and offset-aware datetimes"

\* ------------------------------------------------------------- variables
VARIABLES
    now,             \* wall clock, in ticks
    cron_runs,       \* table cron_runs: run id -> row
    cron_jobs,       \* table cron_jobs: job id -> row
    tokens,          \* heap of CancellationToken objects
    active_tokens,   \* _active_tokens: run id -> index into tokens (0: no entry)
    task,            \* the executor coroutine of each run, with its job body
    stop,            \* the stop_cron_run request in flight
    del,             \* the delete_cron_run request in flight
    sweep,           \* the cleanup_stuck_jobs call in flight
    games,                 \* table games
    team_standings,        \* table team_standings
    players,               \* table players
    player_season_stats,   \* table player_season_stats
    player_game_stats,     \* table player_game_stats
    committed,             \* the five tables as last committed: what other sessions read
    sync,                  \* the job body that reconciles the tables with upstream
    call,                  \* the last call of the token registry and what it returned
    scheduler,       \* the jobs in the APScheduler instance, by job id
    initialize,      \* the initialize_cron_jobs call in flight
    toggle,          \* the toggle_cron_job request in flight
    fire,            \* the scheduled run_cron_job call that has not inserted its run yet
    records,         \* the rows of one model class as the data-entry functions write them
    background_tasks, \* trigger_cron_job._background_tasks: the tasks it holds, by run id
    answer           \* the last get_with_fallback call: its arguments and what it returned

tables == <<games, team_standings, players, player_season_stats, player_game_stats,
            committed>>
definitions == <<scheduler, initialize, toggle, fire>>
lifecycle == <<now, cron_runs, cron_jobs, tokens, active_tokens, task, stop, del, sweep, call,
               definitions, records, background_tasks, answer>>
vars == <<lifecycle, tables, sync, call>>

\* ------------------------------------------------------------- datetimes
\* A DateTime column holds no zone: a value read back from the store is naive.
Loaded(t) == [t |-> t, tzinfo |-> FALSE]
\* datetime.now(timezone.utc)
UtcNow == [t |-> now, tzinfo |-> TRUE]
\* if started.tzinfo is None: started = started.replace(tzinfo=timezone.utc)
AsUtc(d) == [d EXCEPT !.tzinfo = TRUE]
\* a - b raises TypeError when exactly one of the two is naive
CanSubtract(a, b) == a.tzinfo = b.tzinfo
\* int((a - b).total_seconds())
TotalSeconds(a, b) == (a.t - b.t) * TickSeconds

\* ------------------------------------------------------------------ rows
NoDetails == [logs |-> Null, n |-> Null]

NoRun == [present |-> FALSE, job_id |-> 0, triggered_by |-> "none",
          started_at |-> Null, completed_at |-> Null, status |-> "none",
          duration_seconds |-> Null, items_updated |-> 0,
          error_message |-> NoneMsg, details |-> NoDetails]

\* CronRun(job_id=..., job_name=..., triggered_by=..., started_at=now, status="running")
CronRun(job_id, triggered_by) ==
    [NoRun EXCEPT !.present = TRUE, !.job_id = job_id, !.triggered_by = triggered_by,
                  !.started_at = now, !.status = "running"]

\* select(CronRun).where(CronRun.id == run_id) ... scalar_one_or_none()
SelectRun(r) == cron_runs[r]

\* The UPDATE a commit sends: the columns that differ from the loaded row.
Flush(row, snap, cur) == [c \in DOMAIN row |-> IF cur[c] # snap[c] THEN cur[c] ELSE row[c]]
\* The UPDATE matches no row: StaleDataError.
Stale(r, snap, cur) == cur # snap /\ ~cron_runs[r].present
\* A commit that leaves alone a row that another session has already ended.
CommitUnlessEnded(r, snap, cur) ==
    IF cur = snap \/ ~cron_runs[r].present \/ cron_runs[r].status # "running" THEN cron_runs
    ELSE [cron_runs EXCEPT ![r] = Flush(cron_runs[r], snap, cur)]
Commit(r, snap, cur) ==
    IF cur = snap \/ ~cron_runs[r].present THEN cron_runs
    ELSE [cron_runs EXCEPT ![r] = Flush(cron_runs[r], snap, cur)]

\* ---------------------------------------------------------------- tokens
\* CancellationToken.__init__
CancellationToken(run_id) == [run_id |-> run_id, cancelled |-> FALSE, reason |-> NoneMsg]

\* get_cancellation_token on a run id that has no entry: a new token object
NewTokens(run_id) == Append(tokens, CancellationToken(run_id))
\* A lookup that makes a new token on every call.
AlwaysNewToken(run_id) ==
    [heap |-> NewTokens(run_id),
     reg |-> [active_tokens EXCEPT ![run_id] = Len(tokens) + 1],
     token |-> Len(tokens) + 1]
get_cancellation_token(run_id) ==
    IF active_tokens[run_id] = 0
    THEN [heap |-> NewTokens(run_id),
          reg |-> [active_tokens EXCEPT ![run_id] = Len(tokens) + 1],
          token |-> Len(tokens) + 1]
    ELSE [heap |-> tokens, reg |-> active_tokens, token |-> active_tokens[run_id]]

\* A cancel that makes a cancelled token object for an id that has no entry.
CancelRunCreating(run_id, reason) ==
    IF active_tokens[run_id] # 0
    THEN [tokens EXCEPT ![active_tokens[run_id]].cancelled = TRUE,
                        ![active_tokens[run_id]].reason = reason]
    ELSE Append(tokens, [CancellationToken(run_id) EXCEPT !.cancelled = TRUE,
                                                          !.reason = reason])
\* cancel_run: the heap after the call (unchanged when the id has no entry)
cancel_run(run_id, reason) ==
    IF active_tokens[run_id] # 0
    THEN [tokens EXCEPT ![active_tokens[run_id]].cancelled = TRUE,
                        ![active_tokens[run_id]].reason = reason]
    ELSE tokens

\* remove_token: _active_tokens.pop(run_id, None)
remove_token(reg, run_id) == [reg EXCEPT ![run_id] = 0]

\* CancellationToken.check raises CancelledError("Job cancelled: <reason>")
\* A check that looks its token up in the registry.
CheckRaisesIfRegistered(tok) ==
    tokens[tok].cancelled /\ \E r \in RunIds : active_tokens[r] = tok
CheckRaises(tok) == tokens[tok].cancelled
CancelledErrorText(tok) == "Job cancelled: " \o tokens[tok].reason

\* cancel_run returns True if run_id in _active_tokens, else False
cancel_run_Returns(run_id) == active_tokens[run_id] # 0

\* ------------------------------------------- the registry, call by call
NoCall == [op |-> "none", run_id |-> 0, token |-> 0, returned |-> FALSE]
Reasons == {StoppedByUser, DeletedByUser, StuckCleanedUp}

\* token = get_cancellation_token(run_id)
Registry_Get(r) ==
    /\ Len(tokens) < MaxTokens
    /\ LET g == get_cancellation_token(r) IN
       /\ tokens' = g.heap
       /\ active_tokens' = g.reg
       /\ call' = [NoCall EXCEPT !.op = "get", !.run_id = r, !.token = g.token]
    /\ UNCHANGED <<now, cron_runs, cron_jobs, task, stop, del, sweep, tables, records, background_tasks, answer, definitions, sync>>

\* cancel_run(run_id, reason)
Registry_Cancel(r, reason) ==
    /\ tokens' = cancel_run(r, reason)
    /\ call' = [NoCall EXCEPT !.op = "cancel", !.run_id = r,
                              !.returned = cancel_run_Returns(r)]
    /\ UNCHANGED <<now, cron_runs, cron_jobs, active_tokens, task, stop, del, sweep,
                   tables, records, background_tasks, answer, definitions, sync>>

\* remove_token(run_id)
Registry_Remove(r) ==
    /\ active_tokens' = remove_token(active_tokens, r)
    /\ call' = [NoCall EXCEPT !.op = "remove", !.run_id = r]
    /\ UNCHANGED <<now, cron_runs, cron_jobs, tokens, task, stop, del, sweep, tables, records, background_tasks, answer, definitions, sync>>

\* token.check() on a token object some holder still has; returned: it raised
Registry_Check(tok) ==
    /\ tok \in 1..Len(tokens)
    /\ call' = [NoCall EXCEPT !.op = "check", !.run_id = tokens[tok].run_id, !.token = tok,
                              !.returned = CheckRaises(tok)]
    /\ UNCHANGED <<now, cron_runs, cron_jobs, tokens, active_tokens, task, stop, del, sweep,
                   tables, records, background_tasks, answer, definitions, sync>>

\* ------------------------------------------------------------- executors
NoResult == [status |-> "none", items_updated |-> 0, error |-> NoneMsg, details |-> NoDetails]
NoJob == [present |-> FALSE, is_active |-> FALSE, last_run |-> Null, total_runs |-> 0,
          successful_runs |-> 0, failed_runs |-> 0]

IdleTask == [pc |-> "idle", kind |-> "none", job |-> 0, path |-> "none", outer |-> FALSE,
             token |-> 0, started |-> Null, logs |-> 0, flushed |-> NoDetails,
             result |-> NoResult, exc |-> NoneMsg,
             snap |-> NoRun, cur |-> NoRun, jobsnap |-> NoJob, jobcur |-> NoJob]

\* Run ids are assigned by the store in insertion order; the run of a task
\* that trigger_cron_job has created and that has not inserted its row yet
\* is named by the id it will get.
NextRunId == 1 + Cardinality({r \in RunIds : task[r].pc # "idle" \/ r \in background_tasks})

\* The executor is over: its locals are dropped (what the body did stays on
\* record: how it ended and how many log lines it reported).
\* An executor that goes back to its start after a body that did not return.
EndedOrRetried(t, how) ==
    IF t.path \in {"timeout", "cancelled", "exception"}
    THEN [IdleTask EXCEPT !.pc = "created", !.kind = t.kind, !.job = t.job,
                          !.token = t.token, !.logs = t.logs]
    ELSE [IdleTask EXCEPT !.pc = how, !.kind = t.kind, !.job = t.job,
                          !.path = t.path, !.token = t.token, !.logs = t.logs]
Ended(t, how) == [IdleTask EXCEPT !.pc = how, !.kind = t.kind, !.job = t.job,
                                  !.path = t.path, !.token = t.token, !.logs = t.logs]

\* A manual run whose row refers to the first job definition.
RunJobNow_CreateOfJob(r) ==
    /\ r \in background_tasks \/ r = NextRunId
    /\ task[r].pc = "idle"
    /\ cron_runs' = [cron_runs EXCEPT ![r] = CronRun(1, "manual")]
    /\ task' = [task EXCEPT ![r] = [IdleTask EXCEPT !.pc = "created", !.kind = "manual"]]
    /\ UNCHANGED <<now, cron_jobs, tokens, active_tokens, stop, del, sweep, tables, records, background_tasks, answer, definitions, sync, call>>
\* run_job_now, lines 28-40: the run row is inserted and committed.
RunJobNow_Create(r) ==
    /\ r \in background_tasks \/ r = NextRunId
    /\ task[r].pc = "idle"
    /\ cron_runs' = [cron_runs EXCEPT ![r] = CronRun(0, "manual")]
    /\ task' = [task EXCEPT ![r] = [IdleTask EXCEPT !.pc = "created", !.kind = "manual"]]
    /\ UNCHANGED <<now, cron_jobs, tokens, active_tokens, stop, del, sweep, tables, records, background_tasks, answer, definitions, sync, call>>

\* run_cron_job, lines 172-194: the job definition is looked up; an absent or
\* inactive one ends the call; otherwise the run row is inserted and committed.
RunCronJob_Create(r, j) ==
    /\ r = NextRunId
    /\ task[r].pc = "idle"
    /\ cron_jobs[j].is_active
    /\ cron_runs' = [cron_runs EXCEPT ![r] = CronRun(j, "cron")]
    /\ task' = [task EXCEPT ![r] = [IdleTask EXCEPT !.pc = "created", !.kind = "cron",
                                                     !.job = j]]
    /\ UNCHANGED <<now, cron_jobs, tokens, active_tokens, stop, del, sweep, tables, records, background_tasks, answer, definitions, sync, call>>

\* db.refresh(run); run_id = run.id; get_cancellation_token(run_id); the body is
\* started under asyncio.wait_for.  A refresh of a deleted row raises: run_id and
\* cancellation_token are still None, so nothing is finalized or released.
Exec_Refresh(r) ==
    /\ task[r].pc = "created"
    /\ IF cron_runs[r].present
       THEN LET g == get_cancellation_token(r) IN
            /\ tokens' = g.heap
            /\ active_tokens' = g.reg
            /\ task' = [task EXCEPT ![r].pc = "body", ![r].token = g.token,
                                    ![r].started = now]
       ELSE /\ task' = [task EXCEPT ![r] = Ended(task[r], "done")]
            /\ UNCHANGED <<tokens, active_tokens>>
    /\ UNCHANGED <<now, cron_runs, cron_jobs, stop, del, sweep, tables, records, background_tasks, answer, definitions, sync, call>>

\* The body leaves through one of the executor's paths: its session is closed,
\* which rolls back what it had flushed and not committed; the handler's first
\* await is its select of the run row.
Leave(r, path, exc, result) ==
    task' = [task EXCEPT ![r].pc = "select", ![r].path = path, ![r].exc = exc,
                         ![r].result = result, ![r].flushed = NoDetails]

\* cancellation_token.check() at a checkpoint of the body
Body_Check(r) ==
    /\ task[r].pc = "body"
    /\ IF CheckRaises(task[r].token)
       THEN Leave(r, "cancelled", CancelledErrorText(task[r].token), NoResult)
       ELSE UNCHANGED task
    /\ UNCHANGED <<now, cron_runs, cron_jobs, tokens, active_tokens, stop, del, sweep, tables, records, background_tasks, answer, definitions, sync, call>>

\* update_run_progress(run_id, details, db_session=db): run.details =
\* details.copy() and a flush in the body's session, whose transaction stays
\* open; a missing row or a failed write is ignored.
ProgressDetails(t) == [logs |-> t.logs + 1, n |-> 0]
Body_Progress(r) ==
    /\ task[r].pc = "body"
    /\ task[r].logs < MaxBodySteps
    /\ task[r].flushed = NoDetails
    /\ task' = [task EXCEPT ![r].logs = @ + 1,
                            ![r].flushed = IF cron_runs[r].present
                                           THEN ProgressDetails(task[r]) ELSE @]
    /\ UNCHANGED <<now, cron_runs, cron_jobs, tokens, active_tokens, stop, del, sweep,
                   tables, records, background_tasks, answer, definitions, sync, call>>

\* A progress report that inserts the row it does not find.
UpsertRunProgress(r, details) ==
    [cron_runs EXCEPT ![r] = [@ EXCEPT !.present = TRUE, !.details = details]]
\* The table once the body's transaction with the flushed details is committed.
update_run_progress(r, details) ==
    IF cron_runs[r].present THEN [cron_runs EXCEPT ![r].details = details] ELSE cron_runs
\* await db.commit() of the body after a progress report: the flushed details
\* become visible to the other sessions.
Body_Commit(r) ==
    /\ task[r].pc = "body"
    /\ task[r].flushed # NoDetails
    /\ cron_runs' = update_run_progress(r, task[r].flushed)
    /\ task' = [task EXCEPT ![r].flushed = NoDetails]
    /\ UNCHANGED <<now, cron_jobs, tokens, active_tokens, stop, del, sweep, tables, records, background_tasks, answer, definitions, sync, call>>

\* The body returns {"status": ..., "items_updated": ..., "details": details}:
\* "success" with the summary lines appended to the log, or, from its
\* except Exception clause, "failed" with the error text.  Every return of a
\* body follows a commit of its last progress report.
BodyResult(t, status, items) ==
    [status |-> status, items_updated |-> items,
     error |-> IF status = "failed" THEN BodyError ELSE NoneMsg,
     details |-> [logs |-> IF status = "failed" THEN t.logs ELSE t.logs + 1, n |-> items]]
Body_Return(r, status, items) ==
    /\ task[r].pc = "body"
    /\ task[r].flushed = NoDetails
    /\ Leave(r, "normal", NoneMsg, BodyResult(task[r], status, items))
    /\ UNCHANGED <<now, cron_runs, cron_jobs, tokens, active_tokens, stop, del, sweep, tables, records, background_tasks, answer, definitions, sync, call>>

\* The job function raises an exception other than CancelledError.
Body_Raise(r) ==
    /\ task[r].pc = "body"
    /\ Leave(r, "exception", BodyError, NoResult)
    /\ UNCHANGED <<now, cron_runs, cron_jobs, tokens, active_tokens, stop, del, sweep, tables, records, background_tasks, answer, definitions, sync, call>>

\* asyncio.wait_for(..., timeout=timeout_seconds) expires: the body is abandoned.
TimedOut(t) == (now - t.started) * TickSeconds >= timeout_seconds
Body_Timeout(r) ==
    /\ task[r].pc = "body"
    /\ TimedOut(task[r])
    /\ Leave(r, "timeout", NoneMsg, NoResult)
    /\ UNCHANGED <<now, cron_runs, cron_jobs, tokens, active_tokens, stop, del, sweep, tables, records, background_tasks, answer, definitions, sync, call>>

\* ---------------------------------------------------------- finalization
\* A merge that is the plain overlay {**existing_details, **new_details}.
OverlayDetails(existing, new) ==
    [n |-> IF new.n # Null THEN new.n ELSE existing.n,
     logs |-> IF new.logs # Null THEN new.logs ELSE existing.logs]
\* merged_details = {**existing_details, **new_details}, the persisted log kept
MergeDetails(existing, new) ==
    [n |-> IF new.n # Null THEN new.n ELSE existing.n,
     logs |-> IF existing.logs # Null THEN existing.logs ELSE new.logs]

\* The normal-return update of the run row; started is the start time as the
\* executor subtracts it.
Finalized(snap, result, started) ==
    [snap EXCEPT !.completed_at = now,
                 !.duration_seconds = TotalSeconds(UtcNow, started),
                 !.status = result.status,
                 !.items_updated = result.items_updated,
                 !.details = MergeDetails(snap.details, result.details),
                 !.error_message = IF result.status = "failed" THEN result.error ELSE @]

\* except asyncio.TimeoutError
TimedOutRun(snap) ==
    [snap EXCEPT !.completed_at = now, !.status = "failed",
                 !.error_message = TimeoutMessage,
                 !.duration_seconds = timeout_seconds]

\* except asyncio.CancelledError as e / except Exception as e
FailedRun(snap, message, started) ==
    [snap EXCEPT !.completed_at = now, !.status = "failed",
                 !.error_message = message,
                 !.duration_seconds = TotalSeconds(UtcNow, started)]

\* str(e) or "Job cancelled by user"
CancelMessage(e) == IF e = "" THEN JobCancelledByUser ELSE e

\* run_job_now normalizes the loaded start time before subtracting it.
RunJobNow_Started(snap) == AsUtc(Loaded(snap.started_at))
\* run_cron_job subtracts the loaded start time as it is.
RunCronJob_Started(snap) == Loaded(snap.started_at)

\* The session copy run_job_now commits, by the path the body left through.
RunJobNow_Cur(t, snap) ==
    CASE t.path = "normal" -> Finalized(snap, t.result, RunJobNow_Started(snap))
      [] t.path = "timeout" -> TimedOutRun(snap)
      [] t.path = "cancelled" -> FailedRun(snap, CancelMessage(t.exc), RunJobNow_Started(snap))
      [] OTHER -> FailedRun(snap, t.exc, RunJobNow_Started(snap))

\* finally: if run_id: remove_token(run_id)
Finish(r, how, release) ==
    /\ task' = [task EXCEPT ![r] = Ended(task[r], how)]
    /\ active_tokens' = IF release THEN remove_token(active_tokens, r) ELSE active_tokens

\* run_job_now: the select of the run row in the normal path or in a handler.
RunJobNow_Select(r) ==
    /\ task[r].pc = "select"
    /\ task[r].kind = "manual"
    /\ LET snap == SelectRun(r) IN
       IF snap.present
       THEN /\ task' = [task EXCEPT ![r].pc = "commit", ![r].snap = snap,
                                    ![r].cur = RunJobNow_Cur(task[r], snap)]
            /\ UNCHANGED active_tokens
       ELSE Finish(r, "done", TRUE)
    /\ UNCHANGED <<now, cron_runs, cron_jobs, tokens, stop, del, sweep, tables, records, background_tasks, answer, definitions, sync, call>>

\* run_cron_job's outer handler (except Exception, lines 291-310) runs for an
\* exception of the body and for one raised by the code after the body.
InOuterHandler(t) == t.outer \/ t.path = "exception"

\* An exception reaches the outer handler: its first await is its select.
ToOuterHandler(r, exc) ==
    task' = [task EXCEPT ![r].pc = "select", ![r].outer = TRUE, ![r].exc = exc]

\* run_cron_job: the select of the run row, in the normal path (line 244), the
\* timeout handler (214), the cancel handler (229) or the outer handler (296),
\* and the handler's code up to its commit.  The cancel handler and the outer
\* handler subtract the loaded start time from an aware one: the cancel
\* handler's error reaches the outer handler, the outer handler's own error
\* leaves run_cron_job before its commit and its remove_token.
RunCronJob_Select(r) ==
    /\ task[r].pc = "select"
    /\ task[r].kind = "cron"
    /\ LET snap == SelectRun(r)
           t == task[r]
           ok == CanSubtract(UtcNow, RunCronJob_Started(snap)) IN
       IF InOuterHandler(t)
       THEN IF ~snap.present THEN Finish(r, "done", TRUE)
            ELSE IF ok
            THEN /\ task' = [task EXCEPT ![r].pc = "commit", ![r].snap = snap,
                               ![r].cur = FailedRun(snap, t.exc, RunCronJob_Started(snap))]
                 /\ UNCHANGED active_tokens
            ELSE Finish(r, "raised", FALSE)
       ELSE IF t.path = "normal"
       THEN /\ task' = [task EXCEPT ![r].pc = "select_job", ![r].snap = snap]
            /\ UNCHANGED active_tokens
       ELSE IF ~snap.present THEN Finish(r, "done", FALSE)
       ELSE /\ UNCHANGED active_tokens
            /\ IF t.path = "timeout"
               THEN task' = [task EXCEPT ![r].pc = "commit", ![r].snap = snap,
                                         ![r].cur = TimedOutRun(snap)]
               ELSE IF ok
               THEN task' = [task EXCEPT ![r].pc = "commit", ![r].snap = snap,
                               ![r].cur = FailedRun(snap, CancelMessage(t.exc),
                                                    RunCronJob_Started(snap))]
               ELSE ToOuterHandler(r, TypeErrorMessage)
    /\ UNCHANGED <<now, cron_runs, cron_jobs, tokens, stop, del, sweep, tables, records, background_tasks, answer, definitions, sync, call>>

\* run_cron_job, lines 248-284: the select of the job definition, then the
\* updates of the run and of the job's counters.
CountedJob(job, snap, result) ==
    [job EXCEPT !.failed_runs = IF result.status = "failed" THEN @ + 1 ELSE @,
                !.successful_runs = IF result.status = "failed" THEN @ ELSE @ + 1,
                !.last_run = snap.started_at,
                !.total_runs = @ + 1]
RunCronJob_SelectJob(r) ==
    /\ task[r].pc = "select_job"
    /\ LET t == task[r]
           snap == t.snap
           job == cron_jobs[t.job] IN
       IF ~snap.present THEN Finish(r, "done", TRUE)
       ELSE /\ UNCHANGED active_tokens
            /\ IF CanSubtract(UtcNow, RunCronJob_Started(snap))
               THEN task' = [task EXCEPT ![r].pc = "commit",
                               ![r].cur = Finalized(snap, t.result, RunCronJob_Started(snap)),
                               ![r].jobsnap = job,
                               ![r].jobcur = CountedJob(job, snap, t.result)]
               ELSE ToOuterHandler(r, TypeErrorMessage)
    /\ UNCHANGED <<now, cron_runs, cron_jobs, tokens, stop, del, sweep, tables, records, background_tasks, answer, definitions, sync, call>>

\* Whether the executor reaches remove_token after its commit.  run_job_now
\* always does (finally).  run_cron_job does after the normal path's commit and
\* after the outer handler's; its timeout and cancel handlers return without
\* it, unless their commit fails and the outer handler runs (the row is gone,
\* so the outer handler only removes the token); a failed commit of the outer
\* handler leaves run_cron_job at once.
ReleasesAfterCommit(t, stale) ==
    \/ t.kind = "manual"
    \/ InOuterHandler(t) /\ ~stale
    \/ ~InOuterHandler(t) /\ t.path = "normal"
    \/ ~InOuterHandler(t) /\ t.path \in {"timeout", "cancelled"} /\ stale

\* Whether the commit's failure leaves the executor as an exception: in
\* run_job_now from the timeout and cancel handlers (the except Exception
\* handler's commit is wrapped in a try), in run_cron_job from the outer handler.
RaisesAfterCommit(t, stale) ==
    /\ stale
    /\ \/ t.kind = "manual" /\ t.path \in {"timeout", "cancelled"}
       \/ t.kind = "cron" /\ InOuterHandler(t)

\* await db2.commit() of the executor, and what follows it
Exec_Commit(r) ==
    /\ task[r].pc = "commit"
    /\ LET t == task[r]
           stale == Stale(r, t.snap, t.cur) IN
       /\ cron_runs' = Commit(r, t.snap, t.cur)
       /\ cron_jobs' = IF t.jobcur # t.jobsnap /\ ~stale
                       THEN [cron_jobs EXCEPT ![t.job] = Flush(@, t.jobsnap, t.jobcur)]
                       ELSE cron_jobs
       /\ Finish(r, IF RaisesAfterCommit(t, stale) THEN "raised" ELSE "done",
                 ReleasesAfterCommit(t, stale))
    /\ UNCHANGED <<now, tokens, stop, del, sweep, tables, records, background_tasks, answer, definitions, sync, call>>

\* ---------------------------------------------------------- stop_cron_run
NoRequest == [pc |-> "idle", run_id |-> 0, snap |-> NoRun, cur |-> NoRun,
              code |-> "none", status |-> "none"]

\* is_stuck = elapsed_seconds > 3600, computed for a running run only
IsStuck(run) ==
    /\ run.status = "running"
    /\ TotalSeconds(UtcNow, AsUtc(Loaded(run.started_at))) > StuckSeconds

\* A stop that marks the run failed and leaves completed_at alone.
StoppedRunStatusOnly(snap, reason) ==
    [snap EXCEPT !.status = "failed", !.error_message = reason]

\* run.status = "failed"; completed_at = now; error_message = reason; duration
StoppedRun(snap, reason) ==
    [snap EXCEPT !.status = "failed", !.completed_at = now, !.error_message = reason,
                 !.duration_seconds = TotalSeconds(UtcNow, AsUtc(Loaded(snap.started_at)))]

\* An early return for successful runs only.
AlreadySucceeded(run) == run.status = "success" /\ ~IsStuck(run)

\* if run.status != "running" and not is_stuck: return {... "status": run.status}
AlreadyEnded(run) == run.status # "running" /\ ~IsStuck(run)

Responded(r, code, status) == [NoRequest EXCEPT !.run_id = r, !.code = code, !.status = status]

\* stop_cron_run, lines 347-403: the select; 404 for no row; the early return for
\* a run that is not running; otherwise cancel_run and the row's new values.
stop_cron_run_Select(r) ==
    /\ stop.pc = "idle"
    /\ LET snap == SelectRun(r) IN
       IF ~snap.present
       THEN stop' = Responded(r, "404", "none") /\ UNCHANGED tokens
       ELSE IF AlreadyEnded(snap)
       THEN stop' = Responded(r, "already", snap.status) /\ UNCHANGED tokens
       ELSE /\ tokens' = cancel_run(r, StoppedByUser)
            /\ stop' = [NoRequest EXCEPT !.pc = "commit", !.run_id = r, !.snap = snap,
                                         !.cur = StoppedRun(snap, StoppedByUser)]
    /\ UNCHANGED <<now, cron_runs, cron_jobs, active_tokens, task, del, sweep, tables, records, background_tasks, answer, definitions, sync, call>>

\* stop_cron_run, lines 404-414: the commit; a failed commit is answered 500.
stop_cron_run_Commit ==
    /\ stop.pc = "commit"
    /\ cron_runs' = Commit(stop.run_id, stop.snap, stop.cur)
    /\ stop' = IF Stale(stop.run_id, stop.snap, stop.cur)
               THEN Responded(stop.run_id, "500", "none")
               ELSE Responded(stop.run_id, "stopped", "failed")
    /\ UNCHANGED <<now, cron_jobs, tokens, active_tokens, task, del, sweep, tables, records, background_tasks, answer, definitions, sync, call>>

\* -------------------------------------------------------- delete_cron_run
\* delete_cron_run, lines 428-454: the select; a running run is cancelled and
\* marked failed first.
delete_cron_run_Select(r) ==
    /\ del.pc = "idle"
    /\ LET snap == SelectRun(r) IN
       IF ~snap.present
       THEN del' = Responded(r, "404", "none") /\ UNCHANGED tokens
       ELSE IF snap.status = "running"
       THEN /\ tokens' = cancel_run(r, DeletedByUser)
            /\ del' = [NoRequest EXCEPT !.pc = "commit", !.run_id = r, !.snap = snap,
                                        !.cur = StoppedRun(snap, DeletedByUser)]
       ELSE /\ del' = [NoRequest EXCEPT !.pc = "delete", !.run_id = r]
            /\ UNCHANGED tokens
    /\ UNCHANGED <<now, cron_runs, cron_jobs, active_tokens, task, stop, sweep, tables, records, background_tasks, answer, definitions, sync, call>>

\* delete_cron_run, lines 455-458: the commit of the failed status
delete_cron_run_Commit ==
    /\ del.pc = "commit"
    /\ cron_runs' = Commit(del.run_id, del.snap, del.cur)
    /\ del' = IF Stale(del.run_id, del.snap, del.cur)
              THEN Responded(del.run_id, "500", "none")
              ELSE [NoRequest EXCEPT !.pc = "delete", !.run_id = del.run_id]
    /\ UNCHANGED <<now, cron_jobs, tokens, active_tokens, task, stop, sweep, tables, records, background_tasks, answer, definitions, sync, call>>

\* delete_cron_run, lines 461-478: DELETE and its commit, then remove_token
delete_cron_run_Delete ==
    /\ del.pc = "delete"
    /\ cron_runs' = [cron_runs EXCEPT ![del.run_id] = NoRun]
    /\ active_tokens' = remove_token(active_tokens, del.run_id)
    /\ del' = Responded(del.run_id, "deleted", "none")
    /\ UNCHANGED <<now, cron_jobs, tokens, task, stop, sweep, tables, records, background_tasks, answer, definitions, sync, call>>

\* ------------------------------------------------------ cleanup_stuck_jobs
NoSweep == [pc |-> "idle", todo |-> <<>>, done |-> {},
            snaps |-> [r \in RunIds |-> NoRun], curs |-> [r \in RunIds |-> NoRun],
            loaded |-> {},
            jobsnap |-> [j \in JobIds |-> NoJob], jobcur |-> [j \in JobIds |-> NoJob]]

\* CronRun.status == "running", CronRun.started_at < now - timedelta(hours=1)
StuckRuns ==
    {r \in RunIds : /\ cron_runs[r].present
                    /\ cron_runs[r].status = "running"
                    /\ cron_runs[r].started_at * TickSeconds < now * TickSeconds - StuckSeconds}

\* The rows of a select, in id order.
InIdOrder(S) == SelectSeq([i \in 1..MaxRuns |-> i], LAMBDA r : r \in S)

\* A sweep that records the failure's message and leaves the status alone.
SweptRunStillRunning(snap) ==
    [snap EXCEPT !.completed_at = now, !.error_message = StuckMessage,
                 !.duration_seconds = TotalSeconds(AsUtc(UtcNow), AsUtc(Loaded(snap.started_at)))]
\* cleanup_stuck_jobs, lines 467-478
SweptRun(snap) ==
    [snap EXCEPT !.status = "failed", !.completed_at = now, !.error_message = StuckMessage,
                 !.duration_seconds = TotalSeconds(AsUtc(UtcNow), AsUtc(Loaded(snap.started_at)))]

\* The loop body up to its await: the run's new values, cancel_run, remove_token.
SweepRun(sw, r) ==
    /\ sweep' = [sw EXCEPT !.curs[r] = SweptRun(sw.snaps[r]), !.done = @ \cup {r}]
    /\ tokens' = cancel_run(r, StuckCleanedUp)
    /\ active_tokens' = remove_token(active_tokens, r)

\* cleanup_stuck_jobs, lines 455-482: the select of the stuck runs and the first
\* pass of the loop up to the select of its job.
cleanup_stuck_jobs_Select ==
    /\ sweep.pc = "idle"
    /\ IF StuckRuns = {}
       THEN UNCHANGED <<sweep, tokens, active_tokens>>
       ELSE LET todo == InIdOrder(StuckRuns) IN
            SweepRun([NoSweep EXCEPT !.pc = "select_job", !.todo = todo,
                        !.snaps = [r \in RunIds |-> IF r \in StuckRuns THEN cron_runs[r]
                                                    ELSE NoRun],
                        !.curs = [r \in RunIds |-> IF r \in StuckRuns THEN cron_runs[r]
                                                   ELSE NoRun]],
                     Head(todo))
    /\ UNCHANGED <<now, cron_runs, cron_jobs, task, stop, del, tables, records, background_tasks, answer, definitions, sync, call>>

\* A sweep that counts the failure but not the run.
CountFailureOnly(job) == [job EXCEPT !.failed_runs = @ + 1]

\* A sweep that counts the run but not its failure.
CountRunOnly(job) == [job EXCEPT !.total_runs = @ + 1]

\* job.failed_runs += 1; job.total_runs += 1 on the session's job object
CountFailure(job) == [job EXCEPT !.failed_runs = @ + 1, !.total_runs = @ + 1]

\* cleanup_stuck_jobs, lines 485-491: the select of the run's job and its
\* counters, then the next pass of the loop up to its await.
cleanup_stuck_jobs_SelectJob ==
    /\ sweep.pc = "select_job"
    /\ LET r == Head(sweep.todo)
           j == sweep.snaps[r].job_id
           known == j \in sweep.loaded
           base == IF known THEN sweep.jobcur[j] ELSE cron_jobs[j]
           counted == IF j \in JobIds
                      THEN [sweep EXCEPT !.loaded = @ \cup {j},
                                         !.jobsnap[j] = IF known THEN @ ELSE cron_jobs[j],
                                         !.jobcur[j] = CountFailure(base)]
                      ELSE sweep
           rest == Tail(sweep.todo) IN
       IF rest = <<>>
       THEN /\ sweep' = [counted EXCEPT !.pc = "commit", !.todo = rest]
            /\ UNCHANGED <<tokens, active_tokens>>
       ELSE SweepRun([counted EXCEPT !.todo = rest], Head(rest))
    /\ UNCHANGED <<now, cron_runs, cron_jobs, task, stop, del, tables, records, background_tasks, answer, definitions, sync, call>>

\* cleanup_stuck_jobs, lines 493-494: one commit of every run and job update; a
\* run row deleted in the meantime fails the whole transaction.
cleanup_stuck_jobs_Commit ==
    /\ sweep.pc = "commit"
    /\ LET stale == \E r \in sweep.done : Stale(r, sweep.snaps[r], sweep.curs[r]) IN
       /\ cron_runs' = IF stale THEN cron_runs
                       ELSE [r \in RunIds |->
                               IF r \in sweep.done
                               THEN Flush(cron_runs[r], sweep.snaps[r], sweep.curs[r])
                               ELSE cron_runs[r]]
       /\ cron_jobs' = IF stale THEN cron_jobs
                       ELSE [j \in JobIds |->
                               IF j \in sweep.loaded
                               THEN Flush(cron_jobs[j], sweep.jobsnap[j], sweep.jobcur[j])
                               ELSE cron_jobs[j]]
    /\ sweep' = NoSweep
    /\ UNCHANGED <<now, tokens, active_tokens, task, stop, del, tables, records, background_tasks, answer, definitions, sync, call>>

\* ------------------------------------------------------------------ clock
Tick ==
    /\ now < MaxClock
    /\ now' = now + 1
    /\ UNCHANGED <<cron_runs, cron_jobs, tokens, active_tokens, task, stop, del, sweep, tables, records, background_tasks, answer, definitions, sync, call>>


\* ------------------------------------------------------ reconciled tables
EntityIds == 1..MaxEntities
TeamIds == 1..NumTeams
Values == 0..MaxValue
Scores == Values \cup {Null}       \* home_score, away_score: nullable integers
Statuses == {"scheduled", "final"}

\* timedelta(days=3), in seconds
three_days == 3 * 24 * 60 * 60
\* The tick at which a reconciliation runs: late enough for a stored
\* last_api_sync to be older than three days.
SyncStart == three_days \div TickSeconds + 1
\* last_api_sync of a stored row: never synchronised, synchronised more than
\* three days before SyncStart, synchronised one tick before it.
LastSyncs == {Null, 0, SyncStart - 1}

\* The rows a table can hold: the business fields that the jobs write, the
\* is_manual_override flag and last_api_sync.  Row e of team_standings is the
\* standing of the home team of game e, row e of player_game_stats the line of
\* one of its players in game e, row e of player_season_stats the season line
\* of player e.
Games == [status : Statuses, home_score : Scores, away_score : Scores,
          is_manual_override : BOOLEAN, last_api_sync : LastSyncs]
TeamStandingsRows == [wins : Values, conference_rank : Values, is_manual_override : BOOLEAN,
                      last_api_sync : LastSyncs]
Players == [team_id : TeamIds \cup {Null}, is_manual_override : BOOLEAN,
            last_api_sync : LastSyncs]
PlayerSeasonStatsRows == [pts : Values, is_manual_override : BOOLEAN, last_api_sync : LastSyncs]
PlayerGameStatsRows == [pts : Values, is_manual_override : BOOLEAN, last_api_sync : LastSyncs]

\* What upstream can answer.
Boxscores == [is_final : BOOLEAN, home_score : Values, away_score : Values]
StandingsData == [wins : Values, conference_rank : Values]
GameData == [status : Statuses, home_score : Scores, away_score : Scores]

\* ---------------------------------------------------------- the job bodies
SyncJobs == {"update_finished_games", "update_schedules", "update_team_results",
             "update_players_team", "update_player_season_averages_batch"}

\* details = {"games_updated": 0, "standings_updated": [], ..., "errors": []}
NoCounters == [games_updated |-> 0, standings_updated |-> 0, player_stats_updated |-> 0,
               players_updated |-> 0, errors |-> 0]

\* A job body: its position, the items its current loop has yet to process
\* (a row id, and for a game the side of the team whose upstream line it is),
\* the games it marked final, its details and what it returned.
NoSync == [pc |-> "idle", job |-> "none", force |-> FALSE, todo |-> {},
           games_to_check |-> {}, final_games |-> {}, details |-> NoCounters,
           result |-> NoResult, cancelled |-> FALSE]

\* One item per row
Items(S) == S \X {TRUE}
\* A game is in the upstream answer once for its home team and once for its
\* away team.
BothSides(S) == S \X BOOLEAN

\* games_needing_update = [g for g in games_to_check
\*                         if g.status != "final" or g.home_score is None], or all with force
NeedsUpdate(game, force) == force \/ game.status # "final" \/ game.home_score = Null

\* last_api_sync < three_days_ago, or last_api_sync IS NULL
OlderThanThreeDays(stats) ==
    \/ stats.last_api_sync = Null
    \/ stats.last_api_sync * TickSeconds < now * TickSeconds - three_days

\* update_player_season_averages_batch, lines 703-723: the rows it selects
Selectable(stats, force) ==
    /\ stats.is_manual_override = FALSE
    /\ force \/ OlderThanThreeDays(stats)

\* The loop a job body starts with.
FirstLoop(job, force, recent_games) ==
    CASE job = "update_finished_games" ->
            Items({g \in recent_games : NeedsUpdate(games[g], force)})
      [] job = "update_schedules" -> BothSides(EntityIds)
      [] job = "update_team_results" -> BothSides(EntityIds)
      [] job = "update_players_team" -> Items(EntityIds)
      [] OTHER -> Items({s \in EntityIds : Selectable(player_season_stats[s], force)})

FirstPc(job) ==
    CASE job \in {"update_finished_games", "update_schedules", "update_team_results"} -> "games"
      [] job = "update_players_team" -> "players"
      [] OTHER -> "stats"

\* except Exception as e: return {"status": "failed", "error": str(e), "details": details}
BodyFailed(sy) ==
    [sy EXCEPT !.pc = "returned", !.todo = {},
               !.result = [NoResult EXCEPT !.status = "failed", !.error = BodyError]]

\* The job function is called: details is initialised and the first loop's
\* rows are selected.  recent_games are the games whose start time puts them
\* in update_finished_games' window (games_to_check).  update_team_results
\* fetches the league's results before its loop; a failed fetch ends the body.
Sync_Start(force, recent_games, raises) ==
    /\ sync.pc = "idle"
    /\ sync.job \in SyncJobs
    /\ sync.job # "update_finished_games" => recent_games = EntityIds
    /\ raises => sync.job = "update_team_results"
    /\ LET started == [sync EXCEPT !.pc = FirstPc(sync.job), !.force = force,
                                   !.games_to_check = recent_games,
                                   !.todo = FirstLoop(sync.job, force, recent_games)] IN
       sync' = IF raises THEN BodyFailed(started) ELSE started
    /\ UNCHANGED <<lifecycle, tables>>

\* The loops whose every pass starts with cancellation_token.check(): the
\* standings and player stats loops of update_finished_games (lines 377-380,
\* 469-472, 504-507), the loops of update_players_team (1192-1195) and of
\* update_player_season_averages_batch (750-753).  update_finished_games
\* checks once before it fetches the boxscores, update_team_results once
\* at its start, update_schedules once per team and not per game.
ChecksEachItem(job, pc) ==
    \/ job = "update_finished_games" /\ pc \in {"standings", "player_stats"}
    \/ job = "update_players_team" /\ pc = "players"
    \/ job = "update_player_season_averages_batch" /\ pc = "stats"

\* A pass that does not look at the token.
PassesAnyway(sy) == TRUE
\* if self.cancelled: raise asyncio.CancelledError(...) at the head of a pass
PassesCheck(sy) == ~(sy.cancelled /\ ChecksEachItem(sy.job, sy.pc))

\* cancel_run sets the flag of the token the body holds.
Sync_TokenCancel ==
    /\ sync.pc \in {"games", "standings", "player_stats", "players", "stats"}
    /\ ~sync.cancelled
    /\ sync' = [sync EXCEPT !.cancelled = TRUE]
    /\ UNCHANGED <<lifecycle, tables>>

Processed(sy, item) == [sy EXCEPT !.todo = @ \ {item}]

\* update_finished_games, lines 264-293: one game of games_needing_update and
\* its boxscore; only a boxscore that says final is written.
update_finished_games_Game(g, boxscore) ==
    /\ sync.job = "update_finished_games"
    /\ sync.pc = "games"
    /\ <<g, TRUE>> \in sync.todo
    /\ PassesCheck(sync)
    /\ IF boxscore.is_final
       THEN /\ games' = [games EXCEPT ![g].home_score = boxscore.home_score,
                                      ![g].away_score = boxscore.away_score,
                                      ![g].status = "final",
                                      ![g].last_api_sync = now]
            /\ sync' = [Processed(sync, <<g, TRUE>>) EXCEPT !.details.games_updated = @ + 1,
                                                            !.final_games = @ \cup {g}]
       ELSE /\ games' = games
            /\ sync' = Processed(sync, <<g, TRUE>>)
    /\ UNCHANGED <<lifecycle, team_standings, players, player_season_stats, player_game_stats,
                   committed>>

\* update_finished_games, lines 395-431: the standing of a team of a game that
\* was marked final
update_finished_games_Standing(s, team_standing) ==
    /\ sync.job = "update_finished_games"
    /\ sync.pc = "standings"
    /\ <<s, TRUE>> \in sync.todo
    /\ PassesCheck(sync)
    /\ team_standings' = [team_standings EXCEPT ![s].wins = team_standing.wins,
                                ![s].conference_rank = team_standing.conference_rank,
                                ![s].last_api_sync = now]
    /\ sync' = [Processed(sync, <<s, TRUE>>) EXCEPT !.details.standings_updated = @ + 1]
    /\ UNCHANGED <<lifecycle, games, players, player_season_stats, player_game_stats,
                   committed>>

\* update_finished_games, lines 542-589: the stats line of a player of a final
\* game that is already stored
update_finished_games_PlayerStats(s, pts) ==
    /\ sync.job = "update_finished_games"
    /\ sync.pc = "player_stats"
    /\ <<s, TRUE>> \in sync.todo
    /\ PassesCheck(sync)
    /\ player_game_stats' = [player_game_stats EXCEPT ![s].pts = pts,
                                                      ![s].last_api_sync = now]
    /\ sync' = [Processed(sync, <<s, TRUE>>) EXCEPT !.details.player_stats_updated = @ + 1]
    /\ UNCHANGED <<lifecycle, games, team_standings, players, player_season_stats,
                   committed>>

\* update_schedules, lines 952-1015: a game of one team's upstream schedule
\* that is already stored
update_schedules_Game(g, is_home, game_data) ==
    /\ sync.job = "update_schedules"
    /\ sync.pc = "games"
    /\ <<g, is_home>> \in sync.todo
    /\ PassesCheck(sync)
    /\ games' = [games EXCEPT ![g].status = game_data.status,
                              ![g].home_score = game_data.home_score,
                              ![g].away_score = game_data.away_score,
                              ![g].last_api_sync = now]
    /\ sync' = [Processed(sync, <<g, is_home>>) EXCEPT !.details.games_updated = @ + 1]
    /\ UNCHANGED <<lifecycle, team_standings, players, player_season_stats, player_game_stats,
                   committed>>

\* update_team_results, lines 1395-1427 and 1458-1487: one upstream result
\* line of one team for a stored game
TeamResult(game, is_home, pts, win_loss) ==
    [game EXCEPT !.home_score = IF is_home THEN pts ELSE @,
                 !.away_score = IF is_home THEN @ ELSE pts,
                 !.status = IF win_loss THEN "final" ELSE @]
update_team_results_Game(g, is_home, pts, win_loss) ==
    /\ sync.job = "update_team_results"
    /\ sync.pc = "games"
    /\ <<g, is_home>> \in sync.todo
    /\ PassesCheck(sync)
    /\ LET result == TeamResult(games[g], is_home, pts, win_loss)
           changed == result # games[g] IN
       /\ games' = [games EXCEPT ![g] = IF changed THEN [result EXCEPT !.last_api_sync = now]
                                        ELSE @]
       /\ sync' = [Processed(sync, <<g, is_home>>) EXCEPT
                      !.details.games_updated = IF changed THEN @ + 1 ELSE @]
    /\ UNCHANGED <<lifecycle, team_standings, players, player_season_stats, player_game_stats,
                   committed>>

\* StandingsService.refresh_all_standings, lines 240-252 (the last step of
\* update_team_results): a stored standing and its upstream line
refresh_all_standings(s, data) ==
    /\ sync.job = "update_team_results"
    /\ sync.pc = "standings"
    /\ <<s, TRUE>> \in sync.todo
    /\ PassesCheck(sync)
    /\ team_standings' = [team_standings EXCEPT ![s].wins = data.wins,
                                ![s].conference_rank = data.conference_rank]
    /\ sync' = Processed(sync, <<s, TRUE>>)
    /\ UNCHANGED <<lifecycle, games, players, player_season_stats, player_game_stats,
                   committed>>

\* update_players_team, lines 1213-1265: a player and the team upstream names
\* (Null: a free agent)
PlayerTeam(player, nba_team_id) ==
    IF nba_team_id = Null
    THEN IF player.team_id # Null
         THEN [player EXCEPT !.team_id = Null, !.last_api_sync = now]
         ELSE player
    ELSE IF player.team_id # nba_team_id
    THEN [player EXCEPT !.team_id = nba_team_id, !.last_api_sync = now]
    ELSE [player EXCEPT !.last_api_sync = now]
update_players_team_Player(p, nba_team_id) ==
    /\ sync.job = "update_players_team"
    /\ sync.pc = "players"
    /\ <<p, TRUE>> \in sync.todo
    /\ PassesCheck(sync)
    /\ players' = [players EXCEPT ![p] = PlayerTeam(@, nba_team_id)]
    /\ sync' = [Processed(sync, <<p, TRUE>>) EXCEPT
                   !.details.players_updated =
                       IF players[p].team_id # nba_team_id THEN @ + 1 ELSE @]
    /\ UNCHANGED <<lifecycle, games, team_standings, player_season_stats, player_game_stats,
                   committed>>

\* update_player_season_averages_batch, lines 778-797: a selected row and its
\* upstream season line
update_player_season_averages_batch_Stats(s, pts) ==
    /\ sync.job = "update_player_season_averages_batch"
    /\ sync.pc = "stats"
    /\ <<s, TRUE>> \in sync.todo
    /\ PassesCheck(sync)
    /\ player_season_stats' = [player_season_stats EXCEPT ![s].pts = pts,
                                                          ![s].last_api_sync = now]
    /\ sync' = [Processed(sync, <<s, TRUE>>) EXCEPT !.details.players_updated = @ + 1]
    /\ UNCHANGED <<lifecycle, games, team_standings, players, player_game_stats,
                   committed>>

\* A loop without a try of its own: the first error ends the body.
Sync_SkipOrFail(item, error) ==
    /\ sync.pc \in {"games", "standings", "player_stats", "players", "stats"}
    /\ item \in sync.todo
    /\ PassesCheck(sync)
    /\ error => sync.job # "update_team_results"
    /\ sync' = IF error THEN BodyFailed(sync) ELSE Processed(sync, item)
    /\ UNCHANGED <<lifecycle, tables>>
\* Upstream has no record for the item (no boxscore, no standings line, no game
\* log, the game is not in the schedule or the results, no season line), or
\* the fetch of it raises inside the loop's try: the item is skipped, and an
\* exception is appended to details["errors"].  update_team_results has no
\* try inside its loop.
Sync_Skip(item, error) ==
    /\ sync.pc \in {"games", "standings", "player_stats", "players", "stats"}
    /\ item \in sync.todo
    /\ PassesCheck(sync)
    /\ error => sync.job # "update_team_results"
    /\ sync' = [Processed(sync, item) EXCEPT !.details.errors = IF error THEN @ + 1 ELSE @]
    /\ UNCHANGED <<lifecycle, tables>>

\* final_games: the games this run marked final and, with force, the checked
\* games that were final already (without force only those of them that have
\* no stored player stats: none here, every game has its stats row).
FinalGames(sy) ==
    sy.final_games \cup
    {g \in sy.games_to_check : sy.force /\ games[g].status = "final"}

\* total_items / "items_updated" of the returned result, by job
ItemsUpdated(sy) ==
    CASE sy.job = "update_finished_games" ->
            sy.details.games_updated + sy.details.standings_updated
                + sy.details.player_stats_updated
      [] sy.job \in {"update_schedules", "update_team_results"} -> sy.details.games_updated
      [] OTHER -> sy.details.players_updated

\* return {"status": "success", "items_updated": ..., "details": details}
BodyReturned(sy) ==
    [sy EXCEPT !.pc = "returned",
               !.result = [NoResult EXCEPT !.status = "success",
                                           !.items_updated = ItemsUpdated(sy)]]

\* The rows of the job body's session, pending writes included.
Stored == [games |-> games, team_standings |-> team_standings, players |-> players,
           player_season_stats |-> player_season_stats,
           player_game_stats |-> player_game_stats]

\* await db.commit() inside a loop (with the progress report of an item, lines
\* 767-768, 821-823, 1268-1270): the rows written so far are committed.
Sync_CommitProgress ==
    /\ sync.pc \in {"games", "standings", "player_stats", "players", "stats"}
    /\ committed # Stored
    /\ committed' = Stored
    /\ UNCHANGED <<lifecycle, games, team_standings, players, player_season_stats,
                   player_game_stats, sync>>

\* A cancel that keeps what the session holds.
KeepPending == Stored
\* The session is closed without a commit: its pending writes are rolled back.
Rollback == committed

\* The body is cancelled at an await of a loop, by wait_for when the timeout
\* expires or by cancellation_token.check(): CancelledError passes the loop's
\* except Exception, is re-raised by the body's handler (lines 867-869) and
\* leaves async with AsyncSessionLocal(), which closes the session.
Sync_Cancel ==
    /\ sync.pc \in {"games", "standings", "player_stats", "players", "stats"}
    /\ sync' = [sync EXCEPT !.pc = "cancelled", !.todo = {}]
    /\ games' = Rollback.games
    /\ team_standings' = Rollback.team_standings
    /\ players' = Rollback.players
    /\ player_season_stats' = Rollback.player_season_stats
    /\ player_game_stats' = Rollback.player_game_stats
    /\ UNCHANGED <<lifecycle, committed>>

\* The loop is over: the commit after it, and the next loop's rows or the
\* return.  update_finished_games fetches the league standings when a game was
\* marked final, refresh_all_standings always does; a failed fetch ends the body.
Sync_Commit(raises) ==
    /\ sync.pc \in {"games", "standings", "player_stats", "players", "stats"}
    /\ sync.todo = {}
    /\ LET fg == sync.job = "update_finished_games"
           tr == sync.job = "update_team_results"
           fetches == \/ fg /\ sync.pc = "games" /\ sync.final_games # {}
                      \/ tr /\ sync.pc = "games" IN
       /\ raises => fetches
       /\ sync' =
            IF raises THEN BodyFailed(sync)
            ELSE IF fg /\ sync.pc = "games"
            THEN [sync EXCEPT !.pc = "standings", !.todo = Items(sync.final_games)]
            ELSE IF fg /\ sync.pc = "standings"
            THEN [sync EXCEPT !.pc = "player_stats", !.todo = Items(FinalGames(sync))]
            ELSE IF tr /\ sync.pc = "games"
            THEN [sync EXCEPT !.pc = "standings", !.todo = Items(EntityIds)]
            ELSE BodyReturned(sync)
    /\ committed' = Stored
    /\ UNCHANGED <<lifecycle, games, team_standings, players, player_season_stats,
                   player_game_stats>>

\* ---------------------------------------------------------- specifications
\* initialize_cron_jobs: every job definition is created active, counters 0
InitialJob == [present |-> TRUE, is_active |-> TRUE, last_run |-> Null, total_runs |-> 0,
               successful_runs |-> 0, failed_runs |-> 0]

\* -------------------------------------------------------- job definitions
\* The jobs start_scheduler adds to the scheduler (replace_existing=True).
start_scheduler == scheduler \cup JobIds

NoInitialize == [pc |-> "idle", todo |-> <<>>, added |-> {}]

\* if not existing: db.add(CronJob(**job_data)) -- the names this pass adds
AddIfMissing(j, existing) == IF existing.present THEN {} ELSE {j}

\* initialize_cron_jobs, lines 379-386: one pass of the loop, the select of a
\* definition by name and the add of a missing one; the first pass starts
\* the call.  The lifespan handler calls it when the process starts: no
\* request and no scheduled call of an earlier process is alive then.
initialize_cron_jobs_Select ==
    /\ initialize.pc \in {"idle", "select"}
    /\ initialize.pc = "idle" => toggle.pc = "idle" /\ fire.pc = "idle"
    /\ LET todo == IF initialize.pc = "idle" THEN [i \in 1..NumJobs |-> i]
                   ELSE initialize.todo
           added == IF initialize.pc = "idle" THEN {} ELSE initialize.added
           j == Head(todo) IN
       initialize' = [pc |-> IF Tail(todo) = <<>> THEN "commit" ELSE "select",
                      todo |-> Tail(todo),
                      added |-> added \cup AddIfMissing(j, cron_jobs[j])]
    /\ UNCHANGED <<now, cron_runs, cron_jobs, tokens, active_tokens, task, stop, del, sweep,
                   call, scheduler, toggle, fire, tables, records, background_tasks, answer, sync>>

\* initialize_cron_jobs, line 388: the commit inserts the added definitions
\* with the columns' defaults; name is unique, so a definition inserted in the
\* meantime fails the commit.  The lifespan handler calls start_scheduler
\* when initialize_cron_jobs has returned.
IntegrityError(added) == \E j \in added : cron_jobs[j].present
\* A commit that writes the defaults over every definition.
ResetDefinitions(added) == [j \in JobIds |-> InitialJob]
InsertDefinitions(added) ==
    IF IntegrityError(added) THEN cron_jobs
    ELSE [j \in JobIds |-> IF j \in added THEN InitialJob ELSE cron_jobs[j]]
initialize_cron_jobs_Commit ==
    /\ initialize.pc = "commit"
    /\ cron_jobs' = InsertDefinitions(initialize.added)
    /\ scheduler' = IF IntegrityError(initialize.added) THEN scheduler ELSE start_scheduler
    /\ initialize' = NoInitialize
    /\ UNCHANGED <<now, cron_runs, tokens, active_tokens, task, stop, del, sweep,
                   call, toggle, fire, tables, records, background_tasks, answer, sync>>

NoToggle == [pc |-> "idle", job |-> 0, snap |-> NoJob, cur |-> NoJob, code |-> "none"]

\* A toggle that leaves the scheduler alone.
KeepScheduled(job, j) == scheduler
\* A toggle that adds an activated job back to the scheduler.
ReaddScheduler(job, j) == IF job.is_active THEN scheduler \cup {j} ELSE scheduler \ {j}
\* if job.is_active: pass / else: scheduler.remove_job(job.name), job being the
\* definition with the flipped flag
UpdateScheduler(job, j) == IF job.is_active THEN scheduler ELSE scheduler \ {j}

\* toggle_cron_job, lines 245-264: the select (404 for no definition), the
\* flipped flag and the update of the scheduler.  Requests are served once
\* the lifespan's startup is over.
toggle_cron_job_Select(j) ==
    /\ toggle.pc = "idle"
    /\ initialize.pc = "idle"
    /\ LET snap == cron_jobs[j]
           cur == [snap EXCEPT !.is_active = ~@] IN
       IF ~snap.present
       THEN /\ toggle' = [NoToggle EXCEPT !.job = j, !.code = "404"]
            /\ UNCHANGED scheduler
       ELSE /\ toggle' = [NoToggle EXCEPT !.pc = "commit", !.job = j, !.snap = snap,
                                          !.cur = cur]
            /\ scheduler' = UpdateScheduler(cur, j)
    /\ UNCHANGED <<now, cron_runs, cron_jobs, tokens, active_tokens, task, stop, del, sweep,
                   call, initialize, fire, tables, records, background_tasks, answer, sync>>

\* toggle_cron_job, lines 266-273: the commit and the answer
toggle_cron_job_Commit ==
    /\ toggle.pc = "commit"
    /\ cron_jobs' = [cron_jobs EXCEPT ![toggle.job] = Flush(@, toggle.snap, toggle.cur)]
    /\ toggle' = [NoToggle EXCEPT !.job = toggle.job, !.cur = toggle.cur, !.code = "200"]
    /\ UNCHANGED <<now, cron_runs, tokens, active_tokens, task, stop, del, sweep,
                   call, scheduler, initialize, fire, tables, records, background_tasks, answer, sync>>

NoFire == [pc |-> "idle", job |-> 0, code |-> "none"]

\* A lookup that goes on whatever the definition's flag says.
FoundAtAll(job) == job.present
\* if not cron_job: return / if not cron_job.is_active: return
MayRun(job) == job.present /\ job.is_active

\* The scheduler fires a job it holds: run_cron_job, lines 172-183, the select
\* of the definition by name; an absent or inactive one ends the call.
RunCronJob_Fire(j) ==
    /\ fire.pc = "idle"
    /\ initialize.pc = "idle"
    /\ j \in scheduler
    /\ fire' = IF MayRun(cron_jobs[j]) THEN [NoFire EXCEPT !.pc = "insert", !.job = j]
               ELSE [NoFire EXCEPT !.job = j, !.code = "returned"]
    /\ UNCHANGED <<now, cron_runs, cron_jobs, tokens, active_tokens, task, stop, del, sweep,
                   call, scheduler, initialize, toggle, tables, records, background_tasks, answer, sync>>

\* run_cron_job, lines 185-194: the run row is inserted and committed.
RunCronJob_Insert(r) ==
    /\ fire.pc = "insert"
    /\ r = NextRunId
    /\ task[r].pc = "idle"
    /\ cron_runs' = [cron_runs EXCEPT ![r] = CronRun(fire.job, "cron")]
    /\ task' = [task EXCEPT ![r] = [IdleTask EXCEPT !.pc = "created", !.kind = "cron",
                                                     !.job = fire.job]]
    /\ fire' = [NoFire EXCEPT !.job = fire.job, !.code = "created"]
    /\ UNCHANGED <<now, cron_jobs, tokens, active_tokens, stop, del, sweep,
                   call, scheduler, initialize, toggle, tables, records, background_tasks, answer, sync>>
\* ------------------------------------------------------------- data entry
\* A row of a model class with the override columns (Game): one business
\* column, the Column defaults source="api", is_manual_override=False.
NoRecord == [present |-> FALSE, value |-> Null, source |-> "api",
             is_manual_override |-> FALSE, override_reason |-> NoneMsg,
             last_manual_edit |-> Null, last_api_sync |-> Null]
OverrideReasons == {NoneMsg, "late correction"}

\* A clear that also gives the row back to upstream's last values.
ClearedAndReset(record) ==
    [record EXCEPT !.is_manual_override = FALSE, !.override_reason = NoneMsg,
                   !.value = Null]
\* record.is_manual_override = False; record.override_reason = None
Cleared(record) ==
    [record EXCEPT !.is_manual_override = FALSE, !.override_reason = NoneMsg]

\* set_manual_override(db, model_class, record_id, override_data, reason)
set_manual_override(id, value, reason) ==
    /\ records[id].present
    /\ records' = [records EXCEPT ![id] =
                     [@ EXCEPT !.value = value, !.source = "manual",
                               !.is_manual_override = TRUE, !.override_reason = reason,
                               !.last_manual_edit = now]]
    /\ UNCHANGED <<now, cron_runs, cron_jobs, tokens, active_tokens, task, stop, del, sweep,
                   call, definitions, tables, sync, background_tasks, answer>>

\* clear_manual_override(db, model_class, record_id)
clear_manual_override(id) ==
    /\ records[id].present
    /\ records' = [records EXCEPT ![id] = Cleared(@)]
    /\ UNCHANGED <<now, cron_runs, cron_jobs, tokens, active_tokens, task, stop, del, sweep,
                   call, definitions, tables, sync, background_tasks, answer>>

\* create_manual_record(db, model_class, data, reason)
create_manual_record(id, value, reason) ==
    /\ ~records[id].present
    /\ records' = [records EXCEPT ![id] =
                     [NoRecord EXCEPT !.present = TRUE, !.value = value, !.source = "manual",
                                      !.is_manual_override = TRUE, !.override_reason = reason,
                                      !.last_manual_edit = now]]
    /\ UNCHANGED <<now, cron_runs, cron_jobs, tokens, active_tokens, task, stop, del, sweep,
                   call, definitions, tables, sync, background_tasks, answer>>

\* POST /games: Game(..., source="manual", created_at=...); the other columns
\* take their defaults.
create_game(id, value) ==
    /\ ~records[id].present
    /\ records' = [records EXCEPT ![id] =
                     [NoRecord EXCEPT !.present = TRUE, !.value = value, !.source = "manual"]]
    /\ UNCHANGED <<now, cron_runs, cron_jobs, tokens, active_tokens, task, stop, del, sweep,
                   call, definitions, tables, sync, background_tasks, answer>>

\* DELETE /games/{game_id}
delete_game(id) ==
    /\ records[id].present
    /\ records' = [records EXCEPT ![id] = NoRecord]
    /\ UNCHANGED <<now, cron_runs, cron_jobs, tokens, active_tokens, task, stop, del, sweep,
                   call, definitions, tables, sync, background_tasks, answer>>

\* update_schedules, lines 1029-1043: a game of the upstream schedule that is
\* not stored is created with source="api" and last_api_sync
update_schedules_Create(id, value) ==
    /\ ~records[id].present
    /\ records' = [records EXCEPT ![id] =
                     [NoRecord EXCEPT !.present = TRUE, !.value = value, !.source = "api",
                                      !.last_api_sync = now]]
    /\ UNCHANGED <<now, cron_runs, cron_jobs, tokens, active_tokens, task, stop, del, sweep,
                   call, definitions, tables, sync, background_tasks, answer>>

\* update_schedules, lines 1009-1013: a stored game takes upstream's values,
\* whatever its override flag says
update_schedules_Update(id, value) ==
    /\ records[id].present
    /\ records' = [records EXCEPT ![id] = [@ EXCEPT !.value = value, !.last_api_sync = now]]
    /\ UNCHANGED <<now, cron_runs, cron_jobs, tokens, active_tokens, task, stop, del, sweep,
                   call, definitions, tables, sync, background_tasks, answer>>
\* ------------------------------------------------------ local-first reads
TTL_GAMES == 3600   \* TTL_GAMES = 3600  # 1 hour

\* What api_fetch_fn gives: upstream's value, nothing (None) or an exception.
ApiData == Values \cup {Null}

NoAnswer == [called |-> FALSE, id |-> 0, force_refresh |-> FALSE, api_data |-> Null,
             api_raises |-> FALSE, store_raises |-> FALSE, local |-> NoRecord,
             fetched |-> FALSE, stored |-> FALSE, data |-> NoRecord, is_stale |-> FALSE]

\* A freshness test that counts a record synchronised exactly ttl ago as fresh.
IsFreshAtTtl(last_sync, ttl_seconds) ==
    last_sync # Null /\ (now - last_sync) * TickSeconds <= ttl_seconds
\* DataProvider.is_fresh(last_sync, ttl_seconds)
is_fresh(last_sync, ttl_seconds) ==
    last_sync # Null /\ (now - last_sync) * TickSeconds < ttl_seconds

\* A read that refreshes whatever is forced.
ForcedOrNotLocal(local_data, force_refresh, ttl_seconds) ==
    \/ force_refresh
    \/ ~local_data.present
    \/ ~local_data.is_manual_override /\ ~is_fresh(local_data.last_api_sync, ttl_seconds)
\* get_with_fallback, lines 83-95: whether the call goes on to api_fetch_fn
GoesToApi(local_data, force_refresh, ttl_seconds) ==
    ~(/\ local_data.present
      /\ \/ local_data.is_manual_override
         \/ ~force_refresh /\ is_fresh(local_data.last_api_sync, ttl_seconds))

\* store_fn(api_data): the record with upstream's value, synchronised now
StoredData(local_data, api_data) ==
    [local_data EXCEPT !.present = TRUE, !.value = api_data, !.last_api_sync = now]

\* HybridDataService.get_with_fallback(local_fetch_fn, api_fetch_fn, store_fn,
\* ttl_seconds, force_refresh) for the record id: api_fetch_fn gives api_data or
\* raises, store_fn stores or raises; the try covers both.
get_with_fallback(id, force_refresh, api_data, api_raises, store_raises) ==
    LET local_data == records[id]
        fetched == GoesToApi(local_data, force_refresh, TTL_GAMES)
        stores == fetched /\ ~api_raises /\ api_data # Null
        stored == stores /\ ~store_raises
        asked == [NoAnswer EXCEPT !.called = TRUE, !.id = id,
                                 !.force_refresh = force_refresh,
                                 !.api_data = IF fetched /\ ~api_raises THEN api_data ELSE Null,
                                 !.api_raises = fetched /\ api_raises,
                                 !.store_raises = stores /\ store_raises,
                                 !.local = local_data, !.fetched = fetched,
                                 !.stored = stored] IN
    /\ records' = IF stored THEN [records EXCEPT ![id] = StoredData(local_data, api_data)]
                  ELSE records
    /\ answer' = IF ~fetched THEN [asked EXCEPT !.data = local_data]
                 ELSE IF stored THEN [asked EXCEPT !.data = StoredData(local_data, api_data)]
                 ELSE IF local_data.present
                 THEN [asked EXCEPT !.data = local_data, !.is_stale = TRUE]
                 ELSE asked
    /\ UNCHANGED <<now, cron_runs, cron_jobs, tokens, active_tokens, task, stop, del, sweep,
                   call, definitions, tables, background_tasks, sync>>


InitLifecycle ==
    /\ cron_runs = [r \in RunIds |-> NoRun]
    /\ cron_jobs = [j \in JobIds |-> InitialJob]
    /\ tokens = <<>>
    /\ active_tokens = [r \in RunIds |-> 0]
    /\ task = [r \in RunIds |-> IdleTask]
    /\ stop = NoRequest
    /\ del = NoRequest
    /\ sweep = NoSweep
    /\ call = NoCall
    /\ scheduler = JobIds
    /\ initialize = NoInitialize
    /\ toggle = NoToggle
    /\ fire = NoFire
    /\ records = [e \in EntityIds |-> NoRecord]
    /\ background_tasks = {}
    /\ answer = NoAnswer

\* A row as it is inserted: nothing played, never synchronised, no override.
NewGame == [status |-> "scheduled", home_score |-> Null, away_score |-> Null,
            is_manual_override |-> FALSE, last_api_sync |-> Null]
NewTeamStandings == [wins |-> 0, conference_rank |-> 0, is_manual_override |-> FALSE,
                     last_api_sync |-> Null]
NewPlayer == [team_id |-> Null, is_manual_override |-> FALSE, last_api_sync |-> Null]
NewPlayerSeasonStats == [pts |-> 0, is_manual_override |-> FALSE, last_api_sync |-> Null]
NewPlayerGameStats == [pts |-> 0, is_manual_override |-> FALSE, last_api_sync |-> Null]

\* The run lifecycle over tables that no job body writes.
Init ==
    /\ InitLifecycle
    /\ now = 0
    /\ games = [e \in EntityIds |-> NewGame]
    /\ team_standings = [e \in EntityIds |-> NewTeamStandings]
    /\ players = [e \in EntityIds |-> NewPlayer]
    /\ player_season_stats = [e \in EntityIds |-> NewPlayerSeasonStats]
    /\ player_game_stats = [e \in EntityIds |-> NewPlayerGameStats]
    /\ committed = Stored
    /\ sync = NoSync

\* The tables each job body reads and writes.
Touches(job, table) ==
    CASE job = "update_finished_games" ->
            table \in {"games", "team_standings", "player_game_stats"}
      [] job = "update_schedules" -> table = "games"
      [] job = "update_team_results" -> table \in {"games", "team_standings"}
      [] job = "update_players_team" -> table = "players"
      [] OTHER -> table = "player_season_stats"

\* One job body runs at SyncStart, over any stored rows of the tables it
\* touches; the other tables hold rows as inserted.
InitSync ==
    /\ InitLifecycle
    /\ now = SyncStart
    /\ \E job \in SyncJobs :
          /\ sync = [NoSync EXCEPT !.job = job]
          /\ games \in IF Touches(job, "games") THEN [EntityIds -> Games]
                       ELSE {[e \in EntityIds |-> NewGame]}
          /\ team_standings \in IF Touches(job, "team_standings")
                                THEN [EntityIds -> TeamStandingsRows]
                                ELSE {[e \in EntityIds |-> NewTeamStandings]}
          /\ players \in IF Touches(job, "players") THEN [EntityIds -> Players]
                         ELSE {[e \in EntityIds |-> NewPlayer]}
          /\ player_season_stats \in IF Touches(job, "player_season_stats")
                                     THEN [EntityIds -> PlayerSeasonStatsRows]
                                     ELSE {[e \in EntityIds |-> NewPlayerSeasonStats]}
          /\ player_game_stats \in IF Touches(job, "player_game_stats")
                                   THEN [EntityIds -> PlayerGameStatsRows]
                                   ELSE {[e \in EntityIds |-> NewPlayerGameStats]}
    /\ committed = Stored

Executor(r) ==
    \/ RunJobNow_Create(r)
    \/ \E j \in JobIds : RunCronJob_Create(r, j)
    \/ Exec_Refresh(r)
    \/ Body_Check(r)
    \/ Body_Progress(r)
    \/ Body_Commit(r)
    \/ \E status \in {"success", "failed"}, items \in 0..MaxItems : Body_Return(r, status, items)
    \/ Body_Raise(r)
    \/ Body_Timeout(r)
    \/ RunJobNow_Select(r)
    \/ RunCronJob_Select(r)
    \/ RunCronJob_SelectJob(r)
    \/ Exec_Commit(r)

Sweep ==
    \/ cleanup_stuck_jobs_Select
    \/ cleanup_stuck_jobs_SelectJob
    \/ cleanup_stuck_jobs_Commit

\* Spec: FullRuns runs, each through every operation of the lifecycle.
Next ==
    \/ \E r \in 1..FullRuns : Executor(r)
    \/ \E r \in 1..FullRuns : stop_cron_run_Select(r)
    \/ stop_cron_run_Commit
    \/ \E r \in 1..FullRuns : delete_cron_run_Select(r)
    \/ delete_cron_run_Commit
    \/ delete_cron_run_Delete
    \/ Sweep
    \/ Tick

Spec == Init /\ [][Next]_vars

\* SpecSweep: MaxRuns runs whose bodies hang, the sweep, and deletions.
NextSweep ==
    \/ \E r \in RunIds : RunJobNow_Create(r)
    \/ \E r \in RunIds, j \in JobIds : RunCronJob_Create(r, j)
    \/ \E r \in RunIds : Exec_Refresh(r)
    \/ \E r \in RunIds : delete_cron_run_Select(r)
    \/ delete_cron_run_Commit
    \/ delete_cron_run_Delete
    \/ Sweep
    \/ Tick

SpecSweep == Init /\ [][NextSweep]_vars

\* SpecSweepFair: SpecSweep where time passes and the scheduler keeps firing
\* cleanup_stuck_jobs (its startup task and its hourly interval job), each
\* call running to its end.
SpecSweepFair == SpecSweep /\ WF_vars(Tick) /\ WF_vars(Sweep)
\* SpecJobs: the job definitions from an empty table: the lifespan's
\* initialize_cron_jobs and start_scheduler (at every start of the process),
\* toggle_cron_job, the scheduled fires of run_cron_job up to the start of
\* the body, and the sweep of the runs whose bodies hang.
InitJobs ==
    /\ cron_runs = [r \in RunIds |-> NoRun]
    /\ cron_jobs = [j \in JobIds |-> NoJob]
    /\ tokens = <<>>
    /\ active_tokens = [r \in RunIds |-> 0]
    /\ task = [r \in RunIds |-> IdleTask]
    /\ stop = NoRequest
    /\ del = NoRequest
    /\ sweep = NoSweep
    /\ call = NoCall
    /\ scheduler = {}
    /\ initialize = NoInitialize
    /\ toggle = NoToggle
    /\ fire = NoFire
    /\ records = [e \in EntityIds |-> NoRecord]
    /\ background_tasks = {}
    /\ answer = NoAnswer
    /\ now = 0
    /\ games = [e \in EntityIds |-> NewGame]
    /\ team_standings = [e \in EntityIds |-> NewTeamStandings]
    /\ players = [e \in EntityIds |-> NewPlayer]
    /\ player_season_stats = [e \in EntityIds |-> NewPlayerSeasonStats]
    /\ player_game_stats = [e \in EntityIds |-> NewPlayerGameStats]
    /\ committed = Stored
    /\ sync = NoSync

NextJobs ==
    \/ initialize_cron_jobs_Select
    \/ initialize_cron_jobs_Commit
    \/ \E j \in JobIds : toggle_cron_job_Select(j)
    \/ toggle_cron_job_Commit
    \/ \E j \in JobIds : RunCronJob_Fire(j)
    \/ \E r \in RunIds : RunCronJob_Insert(r)
    \/ \E r \in RunIds : Exec_Refresh(r)
    \/ Sweep
    \/ Tick

SpecJobs == InitJobs /\ [][NextJobs]_vars
\* SpecEntry: the rows of one model class under the data-entry functions,
\* the admin endpoints and the creates and updates of update_schedules, each
\* a call with its own commit, while time passes.
NextEntry ==
    \/ \E id \in EntityIds, value \in Values, reason \in OverrideReasons :
          set_manual_override(id, value, reason)
    \/ \E id \in EntityIds : clear_manual_override(id)
    \/ \E id \in EntityIds, value \in Values, reason \in OverrideReasons :
          create_manual_record(id, value, reason)
    \/ \E id \in EntityIds, value \in Values : create_game(id, value)
    \/ \E id \in EntityIds : delete_game(id)
    \/ \E id \in EntityIds, value \in Values : update_schedules_Create(id, value)
    \/ \E id \in EntityIds, value \in Values : update_schedules_Update(id, value)
    \/ Tick

SpecEntry == Init /\ [][NextEntry]_vars
\* --------------------------------------------------------- manual trigger
\* A callback that only logs how the task ended.
KeepTask(r) == background_tasks
\* finally: trigger_cron_job._background_tasks.discard(task)
DiscardTask(r) == background_tasks \ {r}

\* trigger_cron_job, lines 181-237: the select of the definition (404 for
\* none), asyncio.create_task(run_job_now(...)), the task added to the set
\* and the answer; the new task has not run yet.
trigger_cron_job(r, j) ==
    /\ initialize.pc = "idle"
    /\ cron_jobs[j].present
    /\ r = NextRunId
    /\ task[r].pc = "idle"
    /\ background_tasks' = background_tasks \cup {r}
    /\ UNCHANGED <<now, cron_runs, cron_jobs, tokens, active_tokens, task, stop, del, sweep,
                   call, definitions, tables, records, sync, answer>>

\* task_done_callback, lines 215-231: the loop calls it once the task is done,
\* however it ended; its finally discards the task from the set.
task_done_callback(r) ==
    /\ r \in background_tasks
    /\ task[r].pc \in Final
    /\ background_tasks' = DiscardTask(r)
    /\ UNCHANGED <<now, cron_runs, cron_jobs, tokens, active_tokens, task, stop, del, sweep,
                   call, definitions, tables, records, sync, answer>>

\* The executor of a task that trigger_cron_job created.
run_job_now(r) ==
    /\ r \in background_tasks
    /\ \/ RunJobNow_Create(r)
       \/ task[r].kind = "manual" /\ Exec_Refresh(r)
       \/ Body_Check(r)
       \/ \E status \in {"success", "failed"}, items \in 0..MaxItems :
             Body_Return(r, status, items)
       \/ Body_Raise(r)
       \/ Body_Timeout(r)
       \/ RunJobNow_Select(r)
       \/ task[r].kind = "manual" /\ Exec_Commit(r)

\* SpecTrigger: job definitions that are toggled, FullRuns runs that are
\* triggered by hand or fired by the scheduler, and the sweep.
NextTrigger ==
    \/ \E r \in 1..FullRuns, j \in JobIds : trigger_cron_job(r, j)
    \/ \E r \in 1..FullRuns : run_job_now(r)
    \/ \E r \in 1..FullRuns : task_done_callback(r)
    \/ \E j \in JobIds : toggle_cron_job_Select(j)
    \/ toggle_cron_job_Commit
    \/ \E j \in JobIds : RunCronJob_Fire(j)
    \/ \E r \in 1..FullRuns : RunCronJob_Insert(r)
    \/ Sweep
    \/ Tick

SpecTrigger == Init /\ [][NextTrigger]_vars
SpecTriggerFair == SpecTrigger /\ \A r \in RunIds : WF_vars(task_done_callback(r))
\* SpecFallback: rows that the sync creates and an operator overrides, and
\* reads of them through get_with_fallback, while time passes.
NextFallback ==
    \/ \E id \in EntityIds, value \in Values : update_schedules_Create(id, value)
    \/ \E id \in EntityIds, value \in Values : set_manual_override(id, value, NoneMsg)
    \/ \E id \in EntityIds : clear_manual_override(id)
    \/ Tick
    \/ \E id \in EntityIds, force_refresh \in BOOLEAN, api_data \in ApiData,
          api_raises \in BOOLEAN, store_raises \in BOOLEAN :
          get_with_fallback(id, force_refresh, api_data, api_raises, store_raises)

SpecFallback == Init /\ [][NextFallback]_vars
\* SpecCancel: one run of one job body over rows as inserted, with a
\* cancel_run of its token at any moment of its loops.
InitCancel ==
    /\ InitLifecycle
    /\ now = SyncStart
    /\ \E job \in SyncJobs : sync = [NoSync EXCEPT !.job = job]
    /\ games = [e \in EntityIds |-> NewGame]
    /\ team_standings = [e \in EntityIds |-> NewTeamStandings]
    /\ players = [e \in EntityIds |-> NewPlayer]
    /\ player_season_stats = [e \in EntityIds |-> NewPlayerSeasonStats]
    /\ player_game_stats = [e \in EntityIds |-> NewPlayerGameStats]
    /\ committed = Stored
\* SpecSync: one run of one job body, one stored row and one upstream answer
\* at a time.
NextSync ==
    \/ \E force \in BOOLEAN, recent_games \in SUBSET EntityIds, raises \in BOOLEAN :
          Sync_Start(force, recent_games, raises)
    \/ \E g \in EntityIds, boxscore \in Boxscores : update_finished_games_Game(g, boxscore)
    \/ \E s \in EntityIds, data \in StandingsData : update_finished_games_Standing(s, data)
    \/ \E s \in EntityIds, pts \in Values : update_finished_games_PlayerStats(s, pts)
    \/ \E g \in EntityIds, is_home \in BOOLEAN, game_data \in GameData :
          update_schedules_Game(g, is_home, game_data)
    \/ \E g \in EntityIds, is_home \in BOOLEAN, pts \in Values, win_loss \in BOOLEAN :
          update_team_results_Game(g, is_home, pts, win_loss)
    \/ \E s \in EntityIds, data \in StandingsData : refresh_all_standings(s, data)
    \/ \E p \in EntityIds, nba_team_id \in TeamIds \cup {Null} :
          update_players_team_Player(p, nba_team_id)
    \/ \E s \in EntityIds, pts \in Values : update_player_season_averages_batch_Stats(s, pts)
    \/ \E item \in EntityIds \X BOOLEAN, error \in BOOLEAN : Sync_Skip(item, error)
    \/ \E raises \in BOOLEAN : Sync_Commit(raises)
    \/ Sync_CommitProgress
    \/ Sync_Cancel

SpecSync == InitSync /\ [][NextSync]_vars

NextCancel ==
    \/ NextSync
    \/ Sync_TokenCancel

SpecCancel == InitCancel /\ [][NextCancel]_vars
\* SpecForce: one run of update_player_season_averages_batch over any stored
\* season stats, forced or not, and reads through get_with_fallback, forced or
\* not, of rows that the sync created and an operator may have overridden.
InitForce ==
    /\ InitLifecycle
    /\ now = SyncStart
    /\ sync = [NoSync EXCEPT !.job = "update_player_season_averages_batch"]
    /\ games = [e \in EntityIds |-> NewGame]
    /\ team_standings = [e \in EntityIds |-> NewTeamStandings]
    /\ players = [e \in EntityIds |-> NewPlayer]
    /\ player_season_stats \in [EntityIds -> PlayerSeasonStatsRows]
    /\ player_game_stats = [e \in EntityIds |-> NewPlayerGameStats]
    /\ committed = Stored

NextForce ==
    \/ \E force \in BOOLEAN : Sync_Start(force, EntityIds, FALSE)
    \/ \E s \in EntityIds, pts \in Values : update_player_season_averages_batch_Stats(s, pts)
    \/ \E item \in EntityIds \X BOOLEAN, error \in BOOLEAN : Sync_Skip(item, error)
    \/ Sync_Commit(FALSE)
    \/ \E id \in EntityIds, value \in Values : update_schedules_Create(id, value)
    \/ \E id \in EntityIds, value \in Values : set_manual_override(id, value, NoneMsg)
    \/ \E id \in EntityIds, force_refresh \in BOOLEAN, api_data \in ApiData,
          api_raises \in BOOLEAN, store_raises \in BOOLEAN :
          get_with_fallback(id, force_refresh, api_data, api_raises, store_raises)

SpecForce == InitForce /\ [][NextForce]_vars
\* SpecScores: one run of a job body that stores scores (update_finished_games,
\* update_team_results) at SyncStart, over games that are scheduled, without
\* scores and without override; the standings and game stats are any rows.
ScoreJobs == {"update_finished_games", "update_team_results"}
ScheduledGames ==
    {game \in Games : /\ game.status = "scheduled"
                      /\ game.home_score = Null
                      /\ game.away_score = Null
                      /\ ~game.is_manual_override}
InitScores ==
    /\ InitLifecycle
    /\ now = SyncStart
    /\ \E job \in ScoreJobs :
          /\ sync = [NoSync EXCEPT !.job = job]
          /\ games \in [EntityIds -> ScheduledGames]
          /\ team_standings \in [EntityIds -> TeamStandingsRows]
          /\ players = [e \in EntityIds |-> NewPlayer]
          /\ player_season_stats = [e \in EntityIds |-> NewPlayerSeasonStats]
          /\ player_game_stats \in IF Touches(job, "player_game_stats")
                                   THEN [EntityIds -> PlayerGameStatsRows]
                                   ELSE {[e \in EntityIds |-> NewPlayerGameStats]}
    /\ committed = Stored

NextScores ==
    \/ \E force \in BOOLEAN, recent_games \in SUBSET EntityIds, raises \in BOOLEAN :
          Sync_Start(force, recent_games, raises)
    \/ \E g \in EntityIds, boxscore \in Boxscores : update_finished_games_Game(g, boxscore)
    \/ \E s \in EntityIds, data \in StandingsData : update_finished_games_Standing(s, data)
    \/ \E s \in EntityIds, pts \in Values : update_finished_games_PlayerStats(s, pts)
    \/ \E g \in EntityIds, is_home \in BOOLEAN, pts \in Values, win_loss \in BOOLEAN :
          update_team_results_Game(g, is_home, pts, win_loss)
    \/ \E s \in EntityIds, data \in StandingsData : refresh_all_standings(s, data)
    \/ \E item \in EntityIds \X BOOLEAN, error \in BOOLEAN : Sync_Skip(item, error)
    \/ \E raises \in BOOLEAN : Sync_Commit(raises)

SpecScores == InitScores /\ [][NextScores]_vars

\* SpecTokens: the token registry under any sequence of its calls.
NextTokens ==
    \/ \E r \in RunIds : Registry_Get(r)
    \/ \E r \in RunIds, reason \in Reasons : Registry_Cancel(r, reason)
    \/ \E r \in RunIds : Registry_Remove(r)
    \/ \E tok \in 1..MaxTokens : Registry_Check(tok)

SpecTokens == Init /\ [][NextTokens]_vars

\* ================================================================= claims
\* C1.  No step of a sync job body changes a business field of a row whose
\* is_manual_override is true: every such row of games, team_standings,
\* players, player_season_stats and player_game_stats is the same after the
\* step as before it.
BusinessFields(row) == [row EXCEPT !.last_api_sync = Null]
OverrideKept(table) ==
    \A e \in EntityIds :
        table[e].is_manual_override => BusinessFields(table'[e]) = BusinessFields(table[e])
C1_OverrideRespected ==
    [][/\ OverrideKept(games)
       /\ OverrideKept(team_standings)
       /\ OverrideKept(players)
       /\ OverrideKept(player_season_stats)
       /\ OverrideKept(player_game_stats)]_vars

\* C2.  A run that was stopped while its body was executing (the body met the
\* stop's cancellation at a checkpoint, and the stop request has returned)
\* has, once its executor is over, the stored status failed and the stored
\* error_message "Stopped by user".
StoppedMidExecution(r) ==
    /\ task[r].pc \in Final
    /\ task[r].path = "cancelled"
    /\ tokens[task[r].token].reason = StoppedByUser
    /\ stop.pc = "idle"
    /\ cron_runs[r].present
C2_StoppedByUser ==
    \A r \in RunIds :
        StoppedMidExecution(r) =>
            /\ cron_runs[r].status = "failed"
            /\ cron_runs[r].error_message = StoppedByUser

\* C3.  Once a run's stored status is success or failed, a step changes a
\* field of its row only if it is a step of a stop or of a delete request.
Terminal(run) == run.present /\ run.status \in {"success", "failed"}
C3_TerminalIsFinal ==
    [][\A r \in RunIds :
          (Terminal(cron_runs[r]) /\ cron_runs'[r] # cron_runs[r])
              => (stop' # stop \/ del' # del)]_vars

\* C4.  Once an executor is over, however its body ended, the registry holds
\* no token for its run id.
C4_TokenReleased ==
    \A r \in RunIds : task[r].pc \in Final => active_tokens[r] = 0

\* C5.  When the body has raised at a checkpoint, the step that ends the
\* executor leaves the run stored with status failed and with the reason
\* given to cancel_run as its error_message.
EndsCancelled(r) ==
    /\ task[r].path = "cancelled"
    /\ task[r].pc \notin Final
    /\ task'[r].pc \in Final
    /\ cron_runs'[r].present
C5_FailedWithReason ==
    [][\A r \in RunIds :
          EndsCancelled(r) =>
              /\ cron_runs'[r].status = "failed"
              /\ cron_runs'[r].error_message = tokens[task[r].token].reason]_vars

\* C6.  A run whose body exceeded the timeout is stored, from the end of its
\* executor on and in every later state, with status failed, a completed_at,
\* the error_message "Job timed out after 1800 seconds" and duration_seconds
\* 1800.
HasTimedOutValues(run) ==
    /\ run.status = "failed"
    /\ run.completed_at # Null
    /\ run.error_message = TimeoutMessage
    /\ run.duration_seconds = timeout_seconds
C6_TimedOutKept ==
    \A r \in RunIds :
        (task[r].pc \in Final /\ task[r].path = "timeout" /\ cron_runs[r].present)
            => HasTimedOutValues(cron_runs[r])

\* C7.  The commit of cleanup_stuck_jobs is one transaction.  Unless a run it
\* selected has been deleted since (the transaction then fails and changes
\* nothing), it leaves every run it selected, each of them running and
\* started more than an hour before, stored as failed with a completed_at and
\* a duration_seconds >= 0, and it raises failed_runs and total_runs of each
\* job definition by exactly the number of selected runs that carry its id,
\* one per run: a run whose job_id matches no job definition changes none,
\* and no other column of a job definition changes.
SweepCommit == sweep.pc = "commit" /\ sweep'.pc = "idle"
SweepFails == \E r \in sweep.done : ~cron_runs[r].present
SweptOf(j) == {r \in sweep.done : sweep.snaps[r].job_id = j}
WasStuck(run) ==
    /\ run.status = "running"
    /\ (now - run.started_at) * TickSeconds > StuckSeconds
SweepEffect ==
    /\ \A r \in sweep.done :
          /\ WasStuck(sweep.snaps[r])
          /\ cron_runs'[r].status = "failed"
          /\ cron_runs'[r].completed_at # Null
          /\ cron_runs'[r].duration_seconds >= 0
    /\ \A j \in JobIds :
          cron_jobs'[j] =
              [cron_jobs[j] EXCEPT !.failed_runs = @ + Cardinality(SweptOf(j)),
                                   !.total_runs = @ + Cardinality(SweptOf(j))]
StopCalled(r) == stop.pc = "idle" /\ stop' # stop /\ stop'.run_id = r
C8_StopOnEndedRun ==
    [][\A r \in RunIds :
          (StopCalled(r) /\ Terminal(cron_runs[r])) =>
              /\ stop'.pc = "idle"
              /\ stop'.code = "already"
              /\ stop'.status = cron_runs[r].status
              /\ cron_runs' = cron_runs
              /\ active_tokens' = active_tokens
              /\ tokens' = tokens]_vars

\* C8 witness: stop_cron_run has answered "already success" for a run that is
\* stored as success.
C8_Witness ==
    /\ stop.pc = "idle"
    /\ stop.code = "already"
    /\ stop.status = "success"
    /\ cron_runs[stop.run_id].status = "success"

\* C9.  When a stop_cron_run call that found the run stored as running
\* returns successfully, the run is stored as failed with a completed_at,
\* whether or not the registry held a token for it.
StopReturns == stop.pc = "commit" /\ stop.snap.status = "running" /\ stop'.code = "stopped"
C9_StopMarksFailed ==
    [][StopReturns =>
          /\ cron_runs'[stop.run_id].status = "failed"
          /\ cron_runs'[stop.run_id].completed_at # Null]_vars

\* C9 witness: stop_cron_run has returned successfully for a run whose
\* executor has not registered a token yet; the run is stored as failed.
C9_Witness ==
    /\ stop.code = "stopped"
    /\ task[stop.run_id].pc = "created"
    /\ active_tokens[stop.run_id] = 0
    /\ cron_runs[stop.run_id].status = "failed"

\* C10.  delete_cron_run on a running run cancels the token the registry
\* holds for it, then stores the run as failed, then removes the row and the
\* registry entry; and once the row of a run is gone, no step (of the body,
\* of the executor or of any request) brings back the row or a registry entry
\* for its id.
Deleted(r) == task[r].pc # "idle" /\ ~cron_runs[r].present
DeleteCancels(r) ==
    (del.pc = "idle" /\ del'.pc = "commit" /\ del'.run_id = r /\ active_tokens[r] # 0)
        => /\ tokens'[active_tokens[r]].cancelled
           /\ tokens'[active_tokens[r]].reason = DeletedByUser
DeleteMarksFailed(r) ==
    (del.pc = "commit" /\ del.run_id = r /\ del'.pc = "delete")
        => cron_runs'[r].status = "failed"
DeleteRemoves(r) ==
    (del.pc = "delete" /\ del.run_id = r /\ del'.code = "deleted")
        => ~cron_runs'[r].present /\ active_tokens'[r] = 0
StaysDeleted(r) ==
    Deleted(r) => /\ active_tokens[r] = 0
                  /\ ~cron_runs'[r].present
                  /\ active_tokens'[r] = 0
C10_DeleteIsFinal ==
    [][\A r \in RunIds :
          /\ DeleteCancels(r)
          /\ DeleteMarksFailed(r)
          /\ DeleteRemoves(r)
          /\ StaysDeleted(r)]_vars

\* C10 witness: a run was deleted while its body was executing; the body has
\* since met the cancellation at a checkpoint and the executor is over, and
\* there is neither a row nor a registry entry for the run.
C10_Witness ==
    \E r \in RunIds :
        /\ Deleted(r)
        /\ task[r].pc \in Final
        /\ task[r].path = "cancelled"
        /\ tokens[task[r].token].reason = DeletedByUser
        /\ active_tokens[r] = 0

\* C11.  A step of a job body that runs without force leaves every row
\* unchanged whose is_manual_override is false and whose last_api_sync is
\* within three days, and when every stored row the body reads is such a row
\* the step counts nothing into the items_updated the body will return.
WithinTtl(row) == ~row.is_manual_override /\ ~OlderThanThreeDays(row)
FreshKept(table) == \A e \in EntityIds : WithinTtl(table[e]) => table'[e] = table[e]
EveryRowRead(P(_)) ==
    \A e \in EntityIds :
        /\ Touches(sync.job, "games") => P(games[e])
        /\ Touches(sync.job, "team_standings") => P(team_standings[e])
        /\ Touches(sync.job, "players") => P(players[e])
        /\ Touches(sync.job, "player_season_stats") => P(player_season_stats[e])
        /\ Touches(sync.job, "player_game_stats") => P(player_game_stats[e])
C11_FreshUntouched ==
    [][(sync.pc \notin {"idle", "returned"} /\ ~sync.force) =>
          /\ FreshKept(games)
          /\ FreshKept(team_standings)
          /\ FreshKept(players)
          /\ FreshKept(player_season_stats)
          /\ FreshKept(player_game_stats)
          /\ EveryRowRead(WithinTtl) => ItemsUpdated(sync') = ItemsUpdated(sync)]_vars

\* C12.  A step of a job body that obtains an upstream record for a row whose
\* is_manual_override is false and whose last_api_sync is older than three
\* days or absent stores the upstream values in the row and sets its
\* last_api_sync to the time of the run.
Due(row) == ~row.is_manual_override /\ OlderThanThreeDays(row)
C12_StaleRefreshed ==
    [][/\ \A g \in EntityIds, boxscore \in Boxscores :
            (Due(games[g]) /\ boxscore.is_final /\ update_finished_games_Game(g, boxscore)) =>
                /\ games'[g].home_score = boxscore.home_score
                /\ games'[g].away_score = boxscore.away_score
                /\ games'[g].last_api_sync = now
       /\ \A s \in EntityIds, data \in StandingsData :
            (Due(team_standings[s]) /\ update_finished_games_Standing(s, data)) =>
                /\ team_standings'[s].wins = data.wins
                /\ team_standings'[s].conference_rank = data.conference_rank
                /\ team_standings'[s].last_api_sync = now
       /\ \A s \in EntityIds, pts \in Values :
            (Due(player_game_stats[s]) /\ update_finished_games_PlayerStats(s, pts)) =>
                /\ player_game_stats'[s].pts = pts
                /\ player_game_stats'[s].last_api_sync = now
       /\ \A g \in EntityIds, is_home \in BOOLEAN, game_data \in GameData :
            (Due(games[g]) /\ update_schedules_Game(g, is_home, game_data)) =>
                /\ games'[g].status = game_data.status
                /\ games'[g].home_score = game_data.home_score
                /\ games'[g].away_score = game_data.away_score
                /\ games'[g].last_api_sync = now
       /\ \A s \in EntityIds, data \in StandingsData :
            (Due(team_standings[s]) /\ refresh_all_standings(s, data)) =>
                /\ team_standings'[s].wins = data.wins
                /\ team_standings'[s].conference_rank = data.conference_rank
                /\ team_standings'[s].last_api_sync = now
       /\ \A s \in EntityIds, pts \in Values :
            (Due(player_season_stats[s]) /\ update_player_season_averages_batch_Stats(s, pts)) =>
                /\ player_season_stats'[s].pts = pts
                /\ player_season_stats'[s].last_api_sync = now]_vars

\* C13.  When the one stored game is scheduled, has no scores and no override
\* (every behaviour of SpecScores starts so) and a score job whose upstream
\* calls all answer leaves it final, the result the job returns, which the
\* executor stores in the run, has items_updated 1.
C13_OneGameOneItem ==
    ( /\ sync.pc = "returned"
      /\ sync.result.status = "success"
      /\ Cardinality({g \in EntityIds : games[g].status = "final"}) = 1) =>
        sync.result.items_updated = 1

\* C14.  When every stored row that a job body reads has is_manual_override
\* set (no job writes that column, so it was set when the body started), the
\* body, if its upstream calls all answer (it returns success with no entry
\* in its errors), returns items_updated 0.
Overridden(row) == row.is_manual_override
C14_OverrideSkippedSilently ==
    ( /\ EveryRowRead(Overridden)
      /\ sync.pc = "returned"
      /\ sync.result.status = "success"
      /\ sync.details.errors = 0) =>
        sync.result.items_updated = 0

\* C15.  get_cancellation_token(run_id) on an id that has an entry returns the
\* entry's token and changes neither the registry nor any token; on an id that
\* has none (never obtained, or removed) it returns a token object that did
\* not exist before, whose cancelled flag is false, and enters it.
C15_GetIsIdempotent ==
    [][\A r \in RunIds :
          Registry_Get(r) =>
              IF active_tokens[r] # 0
              THEN /\ call'.token = active_tokens[r]
                   /\ active_tokens' = active_tokens
                   /\ tokens' = tokens
              ELSE /\ call'.token \notin 1..Len(tokens)
                   /\ tokens'[call'.token].cancelled = FALSE
                   /\ active_tokens'[r] = call'.token
                   /\ \A t \in 1..Len(tokens) : tokens'[t] = tokens[t]]_vars
\* A token obtained for an id whose removed token had been cancelled.
C15_Witness ==
    /\ call.op = "get"
    /\ active_tokens[call.run_id] = call.token
    /\ ~tokens[call.token].cancelled
    /\ \E t \in 1..Len(tokens) :
          t # call.token /\ tokens[t].run_id = call.run_id /\ tokens[t].cancelled

\* C16.  cancel_run(run_id, reason) returns true exactly when the registry has
\* an entry for run_id at the call; when it returns false neither the registry
\* nor any token changes and no token is created; check() on a token raises
\* exactly when the token's cancelled flag is set.
C16_CancelReportsEntry ==
    [][/\ \A r \in RunIds, reason \in Reasons :
            Registry_Cancel(r, reason) =>
                /\ call'.returned <=> active_tokens[r] # 0
                /\ call'.returned =>
                      /\ tokens'[active_tokens[r]].cancelled
                      /\ tokens'[active_tokens[r]].reason = reason
                /\ ~call'.returned => (active_tokens' = active_tokens /\ tokens' = tokens)
       /\ \A tok \in 1..Len(tokens) :
            Registry_Check(tok) => (call'.returned <=> tokens[tok].cancelled)]_vars
\* A cancel that found no entry, while a removed token of the id still exists.
C16_Witness ==
    /\ call.op = "cancel"
    /\ ~call.returned
    /\ active_tokens[call.run_id] = 0
    /\ \E t \in 1..Len(tokens) : tokens[t].run_id = call.run_id

\* C17.  When the job body has raised an exception other than a timeout or a
\* cancellation, the step that ends the executor (run_job_now or run_cron_job)
\* ends it by a normal return, and leaves the run row, if it still exists,
\* failed with the exception's text as its error_message.
BodyRaised(r) == task[r].path = "exception" /\ task[r].pc \notin Final \cup {"idle"}
C17_BodyErrorContained ==
    [][\A r \in RunIds :
          (BodyRaised(r) /\ task'[r].pc \in Final) =>
              /\ task'[r].pc = "done"
              /\ cron_runs'[r].present =>
                    /\ cron_runs'[r].status = "failed"
                    /\ cron_runs'[r].error_message = BodyError]_vars

\* C18.  When the job body has returned normally, the step that ends the
\* executor leaves the run row, if it still exists, with the status the body
\* returned ("success" unless it reported "failed") and the items_updated it
\* returned; for run_cron_job the same step has increased the job's total_runs
\* by one and, matching that status, exactly one of successful_runs and
\* failed_runs by one.
BodyReturnedNormally(r) == task[r].path = "normal" /\ task[r].pc \notin Final \cup {"idle"}
CountedOnce(job, counted, status) ==
    /\ counted.total_runs = job.total_runs + 1
    /\ counted.failed_runs = job.failed_runs + (IF status = "failed" THEN 1 ELSE 0)
    /\ counted.successful_runs = job.successful_runs + (IF status = "failed" THEN 0 ELSE 1)
C18_ResultStored ==
    [][\A r \in RunIds :
          (BodyReturnedNormally(r) /\ task'[r].pc \in Final /\ cron_runs'[r].present) =>
              /\ cron_runs'[r].status = task[r].result.status
              /\ cron_runs'[r].items_updated = task[r].result.items_updated
              /\ task[r].kind = "cron" =>
                    CountedOnce(cron_jobs[task[r].job], cron_jobs'[task[r].job],
                                cron_runs'[r].status)]_vars

\* C19.  The executor's commit of a normal finalization leaves the run's
\* details as the details persisted before it overlaid with the details the
\* body returned (a key the body returned takes the returned value), except
\* for the log list: a persisted log list is kept as it is, and the returned
\* log list is stored only when none was persisted.
FinalizationCommit(r) ==
    /\ task[r].pc = "commit"
    /\ task[r].path = "normal"
    /\ ~InOuterHandler(task[r])
    /\ task'[r].pc \in Final
    /\ cron_runs[r].present
C20_ProgressVisible ==
    [][\A r \in RunIds :
          (Body_Progress(r) /\ cron_runs[r].present) =>
              cron_runs'[r].details = ProgressDetails(task[r])]_vars

\* C21.  Whenever the executor's finalization, stop_cron_run or
\* delete_cron_run commits its update of a run row that exists, the row's
\* status after the commit is the status that writer assigned, which is
\* success or failed, whatever the other writers committed before it; and a
\* row stored as success or failed is never stored as running again.
Ends == {"success", "failed"}
WritesStatus(r, committing, cur) ==
    (committing /\ cron_runs[r].present) =>
        cron_runs'[r].status = cur.status /\ cur.status \in Ends
C21_LastWriterWins ==
    [][\A r \in RunIds :
          /\ WritesStatus(r, task[r].pc = "commit" /\ task'[r].pc \in Final, task[r].cur)
          /\ WritesStatus(r, stop.pc = "commit" /\ stop.run_id = r /\ stop' # stop, stop.cur)
          /\ WritesStatus(r, del.pc = "commit" /\ del.run_id = r /\ del' # del, del.cur)
          /\ (cron_runs[r].status \in Ends /\ cron_runs'[r].present) =>
                 cron_runs'[r].status \in Ends]_vars

\* C21 witness: stop_cron_run has stored a run as failed and returned, and the
\* executor, whose body returned success, has committed after it: the run is
\* stored as success.
C21_Witness ==
    \E r \in RunIds :
        /\ stop.code = "stopped"
        /\ stop.run_id = r
        /\ task[r].pc = "done"
        /\ task[r].path = "normal"
        /\ cron_runs[r].status = "success"

\* C22.  With time passing and cleanup_stuck_jobs firing again and again, a
\* run stored as running whose executor never finishes it (and whose start
\* lies more than an hour before the end of the modelled clock) is
\* eventually stored as success or failed, or is deleted.
CanGetStuck(run) == run.started_at * TickSeconds + StuckSeconds < MaxClock * TickSeconds
LeftRunning(r) ==
    /\ cron_runs[r].present
    /\ cron_runs[r].status = "running"
    /\ CanGetStuck(cron_runs[r])
Settled(r) == ~cron_runs[r].present \/ cron_runs[r].status \in Ends
C22_RunningIsReclaimed == \A r \in RunIds : LeftRunning(r) ~> Settled(r)

\* C22 witness: a run whose body hangs has been stored as failed by the sweep.
C22_Witness ==
    \E r \in RunIds :
        /\ task[r].pc = "body"
        /\ cron_runs[r].present
        /\ cron_runs[r].status = "failed"
        /\ cron_runs[r].error_message = StuckMessage

\* C23.  toggle_cron_job stores the opposite of the definition's is_active,
\* and when it returns with the definition inactive the job is not in the
\* scheduler; a scheduled call of run_cron_job that finds the definition
\* inactive or absent returns at once: no run row, no registry entry, no
\* token and no executor with a body come of it.
ToggleReturns(j) == toggle.pc = "commit" /\ toggle.job = j /\ toggle'.code = "200"
TogglesFlag(j) ==
    ToggleReturns(j) =>
        /\ cron_jobs'[j].is_active = ~cron_jobs[j].is_active
        /\ ~cron_jobs'[j].is_active => j \notin scheduler'
FiredWhileOff(j) ==
    /\ fire.pc = "idle"
    /\ fire' # fire
    /\ fire'.job = j
    /\ ~(cron_jobs[j].present /\ cron_jobs[j].is_active)
FireIsIgnored(j) ==
    FiredWhileOff(j) =>
        /\ fire'.pc = "idle"
        /\ cron_runs' = cron_runs
        /\ active_tokens' = active_tokens
        /\ tokens' = tokens
        /\ task' = task
C23_InactiveJobNeverRuns ==
    [][\A j \in JobIds : TogglesFlag(j) /\ FireIsIgnored(j)]_vars

\* C23 witness: a definition has been toggled to inactive, the process has
\* started again (start_scheduler holds the job once more), and the
\* scheduler's call of run_cron_job has returned without a run.
C23_Witness ==
    /\ toggle.code = "200"
    /\ fire.code = "returned"
    /\ fire.job = toggle.job
    /\ cron_jobs[fire.job].present
    /\ ~cron_jobs[fire.job].is_active
    /\ fire.job \in scheduler

\* C27.  No step of initialize_cron_jobs changes a job definition that
\* exists (its is_active flag, its counters and its last_run stay as they
\* are); when the call returns, every job name has its definition; and no
\* step of any operation removes a definition.
InitializeSteps == initialize' # initialize
InitializeReturns == initialize.pc = "commit" /\ initialize'.pc = "idle"
RowChanged(table) ==
    \E e \in EntityIds : BusinessFields(table'[e]) # BusinessFields(table[e])
SomeRowChanged ==
    \/ RowChanged(games)
    \/ RowChanged(team_standings)
    \/ RowChanged(players)
    \/ RowChanged(player_season_stats)
    \/ RowChanged(player_game_stats)
C24_CountsChangesOnly ==
    [][ItemsUpdated(sync') > ItemsUpdated(sync) => SomeRowChanged]_vars

\* C25.  When the fetch for one item of a job body's loop fails, the step
\* records one error, writes no row, and leaves the body in its loop with
\* every other item still to process; a body only returns once its loop has
\* no item left, and it never turns failed inside a loop.
FetchFailed == sync'.details.errors = sync.details.errors + 1
InLoop == sync.todo # {}
BodyCancelled == sync.pc # "cancelled" /\ sync'.pc = "cancelled"
C26_CommittedWorkIsKept ==
    [][/\ BodyCancelled => committed' = committed /\ Stored' = committed
       /\ sync.pc = "cancelled" => UNCHANGED tables]_vars

\* C26 witness: update_finished_games was cancelled in its standings loop: the
\* game it marked final and committed carries the run's last_api_sync, the
\* standing it had updated since does not.
C26_Witness ==
    \E g \in EntityIds, s \in EntityIds :
        /\ sync.pc = "cancelled"
        /\ sync.job = "update_finished_games"
        /\ sync.details.games_updated = 1
        /\ committed.games[g].status = "final"
        /\ committed.games[g].last_api_sync = now
        /\ sync.details.standings_updated = 1
        /\ committed.team_standings[s].last_api_sync # now
        /\ team_standings[s] = committed.team_standings[s]

\* C28.  clear_manual_override sets is_manual_override to false and
\* override_reason to None and changes no other column of the record; the
\* value an operator stored changes only when a sync pass or another override
\* writes the record.
EntryFields(record) ==
    [record EXCEPT !.is_manual_override = FALSE, !.override_reason = NoneMsg]
ClearCalled(id) ==
    /\ records[id].is_manual_override
    /\ ~records'[id].is_manual_override
    /\ records'[id].present
Overwritten(id) ==
    /\ records[id].present /\ records'[id].present
    /\ records[id].last_manual_edit # Null
    /\ records'[id].value # records[id].value
C28_ClearKeepsValues ==
    [][\A id \in EntityIds :
          /\ ClearCalled(id) =>
                /\ records'[id].override_reason = NoneMsg
                /\ EntryFields(records'[id]) = EntryFields(records[id])
          /\ Overwritten(id) =>
                \/ records'[id].last_api_sync = now
                      /\ records'[id].last_manual_edit = records[id].last_manual_edit
                \/ records'[id].last_manual_edit = now
                      /\ records'[id].is_manual_override]_vars

\* C28 witness: a record that upstream created holds the value an override
\* gave it, with the override cleared since.
C28_Witness ==
    \E id \in EntityIds :
        /\ records[id].present
        /\ records[id].last_api_sync # Null
        /\ records[id].source = "manual"
        /\ records[id].last_manual_edit # Null
        /\ records[id].last_manual_edit > records[id].last_api_sync
        /\ records[id].value = MaxValue
        /\ ~records[id].is_manual_override
        /\ records[id].override_reason = NoneMsg

\* C29.  A record that comes into being has source "api", or has source
\* "manual" together with is_manual_override true.
Created(id) == ~records[id].present /\ records'[id].present
C29_CreatedByApiOrOverride ==
    [][\A id \in EntityIds :
          Created(id) =>
              \/ records'[id].source = "api"
              \/ records'[id].source = "manual" /\ records'[id].is_manual_override]_vars

\* C30.  One trigger or fire inserts one run row, in the step that starts its
\* executor, and the executor starts its body once, from there; an executor
\* that has left its body never returns to it or to its start, one that is
\* over stays over, and no step of an executor past its insert or of the
\* sweep makes a run row appear.
RunInserted(r) == ~cron_runs[r].present /\ cron_runs'[r].present
BodyInvoked(r) == task[r].pc # "body" /\ task'[r].pc = "body"
C30_OneRunOneBody ==
    [][\A r \in RunIds :
          /\ RunInserted(r) =>
                /\ task[r].pc = "idle" /\ task'[r].pc = "created"
                /\ \A q \in RunIds \ {r} : ~RunInserted(q)
          /\ BodyInvoked(r) => task[r].pc = "created" /\ task[r].token = 0
          /\ task[r].pc # "idle" =>
                /\ task'[r].pc # "idle"
                /\ task'[r].pc = "created" => task[r].pc = "created"
          /\ task[r].pc \in Final => task'[r] = task[r]]_vars

\* C30 witness: a run that timed out is failed, its executor is over, time has
\* passed to the end of the clock and there is still one run row.
C30_Witness ==
    \E r \in RunIds :
        /\ task[r].pc \in Final
        /\ task[r].path = "timeout"
        /\ cron_runs[r].present /\ cron_runs[r].status = "failed"
        /\ now = MaxClock
        /\ Cardinality({q \in RunIds : cron_runs[q].present}) = 1

\* C31.  A step of cleanup_stuck_jobs leaves every run that is not running, or
\* that started within the last hour, as it is stored, leaves its token in the
\* registry and uncancelled, and leaves the job definitions' counters alone
\* when it is the only kind of run there is.
SweepActs == sweep' # sweep
NotStuck(r) == cron_runs[r].present /\ r \notin StuckRuns
C31_SweepTouchesStuckOnly ==
    [][SweepActs =>
          /\ \A r \in RunIds :
                NotStuck(r) =>
                    /\ cron_runs'[r] = cron_runs[r]
                    /\ active_tokens'[r] = active_tokens[r]
                    /\ active_tokens[r] # 0 =>
                          tokens'[active_tokens[r]] = tokens[active_tokens[r]]
          /\ (\A r \in RunIds : cron_runs[r].present => NotStuck(r)) =>
                cron_jobs' = cron_jobs]_vars

\* C32.  The sweep's pass over a run cancels the run's registered token with
\* the sweep's reason and takes it out of the registry; a body that still
\* holds the token raises at its next checkpoint with that reason.
Reclaims(r) == r \in sweep'.done /\ r \notin sweep.done
HoldsSweptToken(r) ==
    /\ task[r].pc = "body"
    /\ active_tokens[r] = 0
    /\ tokens[task[r].token].cancelled
    /\ tokens[task[r].token].reason = StuckCleanedUp
RaisesAtCheckpoint(r) ==
    ENABLED (/\ Body_Check(r)
             /\ task'[r].path = "cancelled"
             /\ task'[r].exc = "Job cancelled: " \o StuckCleanedUp)
C32_SweptTokenStillRaises ==
    /\ [][\A r \in RunIds :
             Reclaims(r) =>
                 /\ active_tokens'[r] = 0
                 /\ active_tokens[r] # 0 =>
                       /\ tokens'[active_tokens[r]].cancelled
                       /\ tokens'[active_tokens[r]].reason = StuckCleanedUp]_vars
    /\ [](\A r \in RunIds : HoldsSweptToken(r) => RaisesAtCheckpoint(r))

\* C32 witness: a body has left at a checkpoint with the sweep's reason while
\* the registry holds no token for its run.
C32_Witness ==
    \E r \in RunIds :
        /\ task[r].pc = "select"
        /\ task[r].path = "cancelled"
        /\ task[r].exc = "Job cancelled: " \o StuckCleanedUp
        /\ active_tokens[r] = 0
        /\ tokens[task[r].token].cancelled

\* C33.  In the loops of update_players_team and of
\* update_player_season_averages_batch, a body whose token is cancelled and
\* that has an entity ahead does nothing but commit what the pass before
\* wrote, or raise at the checkpoint; once it has raised it writes no
\* entity and fetches nothing.
AtCheckpoint ==
    /\ sync.cancelled
    /\ sync.todo # {}
    /\ \/ sync.job = "update_players_team" /\ sync.pc = "players"
       \/ sync.job = "update_player_season_averages_batch" /\ sync.pc = "stats"
NothingFetchedOrWritten ==
    /\ sync' = sync
    /\ UNCHANGED <<games, team_standings, players, player_season_stats, player_game_stats>>
C33_CancelSeenAtCheckpoint ==
    [][/\ AtCheckpoint => sync'.pc = "cancelled" \/ NothingFetchedOrWritten
       /\ sync.pc = "cancelled" => NothingFetchedOrWritten /\ committed' = committed]_vars

\* C33 witness: a body whose token was cancelled with an entity still ahead
\* has raised, and the stored rows are the rows as inserted.
C33_Witness ==
    /\ sync.pc = "cancelled"
    /\ sync.cancelled
    /\ sync.job \in {"update_players_team", "update_player_season_averages_batch"}
    /\ sync.details = NoCounters
    /\ players = [e \in EntityIds |-> NewPlayer]
    /\ player_season_stats = [e \in EntityIds |-> NewPlayerSeasonStats]

\* C34 as stated.  The held set is exactly the set of triggered tasks that
\* are not done.
TriggeredTask(r) == r \in background_tasks \/ task[r].kind = "manual"
TaskDone(r) == task[r].pc \in Final
C34_HeldExactlyUndone ==
    background_tasks = {r \in RunIds : TriggeredTask(r) /\ ~TaskDone(r)}

\* C34, amended.  trigger_cron_job returns with the task it created held and
\* not yet started; every triggered task that is not done is held; a task
\* leaves the set only when it is done, and every done task leaves it, once
\* the loop has called its done callback.
TriggerReturns(r) == r \notin background_tasks /\ r \in background_tasks'
C34_HeldUntilCallback ==
    /\ [](\A r \in RunIds : TriggeredTask(r) /\ ~TaskDone(r) => r \in background_tasks)
    /\ [][\A r \in RunIds :
             /\ TriggerReturns(r) => task'[r].pc = "idle" /\ ~cron_runs'[r].present
             /\ r \in background_tasks /\ r \notin background_tasks' => TaskDone(r)]_vars
    /\ \A r \in RunIds : (r \in background_tasks /\ TaskDone(r)) ~> r \notin background_tasks

\* C34 witness: a triggered run whose body raised the cancellation signal is
\* over and the set is empty again.
C34_Witness ==
    \E r \in RunIds :
        /\ task[r].kind = "manual"
        /\ task[r].pc \in Final
        /\ task[r].path = "cancelled"
        /\ background_tasks = {}

\* C35 as stated.  Every get_with_fallback call follows the decision table:
\* an overridden local record, or a fresh one without force_refresh, is
\* returned with no fetch and no store; otherwise upstream is fetched and
\* what it gives is stored and returned; a fetch that fails or gives nothing
\* returns the local record as stale, or (None, not stale).
Asked == answer'.called /\ answer' # answer
LocalOverridden == answer'.local.present /\ answer'.local.is_manual_override
LocalWithinTtl ==
    /\ answer'.local.last_api_sync # Null
    /\ (now - answer'.local.last_api_sync) * TickSeconds < TTL_GAMES
LocalFresh == answer'.local.present /\ ~answer'.local.is_manual_override /\ LocalWithinTtl
LocalServed == LocalOverridden \/ (LocalFresh /\ ~answer'.force_refresh)
LocalReturned(is_stale) ==
    /\ answer'.data = answer'.local
    /\ answer'.is_stale = is_stale
    /\ ~answer'.stored
    /\ records' = records
UpstreamGave == ~answer'.api_raises /\ answer'.api_data # Null
UpstreamStored ==
    /\ answer'.stored
    /\ answer'.data.present /\ answer'.data.value = answer'.api_data
    /\ ~answer'.is_stale
    /\ records'[answer'.id] = answer'.data
FellBack ==
    IF answer'.local.present THEN LocalReturned(TRUE)
    ELSE /\ answer'.data = NoRecord /\ ~answer'.is_stale
         /\ ~answer'.stored /\ records' = records
C35_DecisionTable ==
    [][Asked =>
          /\ LocalServed => ~answer'.fetched /\ LocalReturned(FALSE)
          /\ ~LocalServed => answer'.fetched
          /\ ~LocalServed /\ UpstreamGave => UpstreamStored
          /\ ~LocalServed /\ ~UpstreamGave => FellBack]_vars

\* C35, amended.  The same table, with the store inside the try: what upstream
\* gives is stored and returned when store_fn returns; when store_fn raises,
\* as when the fetch fails or gives nothing, the local record is returned as
\* stale, or (None, not stale) when there is none.
C35_DecisionTableWithStore ==
    [][Asked =>
          /\ LocalServed => ~answer'.fetched /\ LocalReturned(FALSE)
          /\ ~LocalServed => answer'.fetched
          /\ ~LocalServed /\ UpstreamGave /\ ~answer'.store_raises => UpstreamStored
          /\ ~LocalServed /\ (~UpstreamGave \/ answer'.store_raises) => FellBack]_vars

\* C35 witness: a call found a record synchronised exactly the TTL ago,
\* fetched, and fell back to it as stale because the store raised.
C35_Witness ==
    /\ answer.called
    /\ answer.local.present /\ ~answer.local.is_manual_override
    /\ answer.local.last_api_sync # Null
    /\ (now - answer.local.last_api_sync) * TickSeconds = TTL_GAMES
    /\ answer.fetched /\ answer.store_raises
    /\ answer.is_stale /\ answer.data = answer.local

\* C36.  Force does not reach an overridden record: a forced run of
\* update_player_season_averages_batch has no overridden row among the rows
\* it selected and writes none, and a get_with_fallback call with
\* force_refresh that finds an overridden local record returns it, not
\* stale, without a fetch and without a store.
ForcedBatch == sync.job = "update_player_season_averages_batch" /\ sync.force
ForcedRead ==
    /\ answer'.called /\ answer' # answer
    /\ answer'.force_refresh
    /\ answer'.local.present /\ answer'.local.is_manual_override
C36_ForceKeepsOverride ==
    /\ [](ForcedBatch =>
             \A item \in sync.todo : ~player_season_stats[item[1]].is_manual_override)
    /\ [][/\ ForcedBatch =>
                \A s \in EntityIds :
                    player_season_stats[s].is_manual_override =>
                        player_season_stats'[s] = player_season_stats[s]
          /\ ForcedRead =>
                /\ ~answer'.fetched /\ ~answer'.stored
                /\ answer'.data = answer'.local /\ ~answer'.is_stale
                /\ records' = records]_vars

\* C36 witness: a forced batch run has returned with an overridden row of the
\* season stats in the store, and a forced read has returned an overridden
\* record.
C36_Witness ==
    /\ sync.pc = "returned" /\ sync.force
    /\ \E s \in EntityIds : player_season_stats[s].is_manual_override
    /\ answer.called /\ answer.force_refresh
    /\ answer.local.is_manual_override /\ answer.data = answer.local

Counters(job) == <<job.total_runs, job.successful_runs, job.failed_runs, job.last_run>>
ManualRows ==
    \A r \in RunIds :
        cron_runs[r].present /\ task[r].kind = "manual" =>
            cron_runs[r].job_id = 0 /\ cron_runs[r].triggered_by = "manual"
TriggersInactive ==
    \A j \in JobIds :
        /\ initialize.pc = "idle"
        /\ cron_jobs[j].present
        /\ ~cron_jobs[j].is_active
        /\ NextRunId \in 1..FullRuns
        /\ task[NextRunId].pc = "idle"
        => ENABLED trigger_cron_job(NextRunId, j)
ManualExecutorSteps(r) ==
    /\ task'[r] # task[r]
    /\ task'[r].kind = "manual"
SweepOfManual ==
    /\ sweep.pc = "commit"
    /\ sweep'.pc = "idle"
    /\ \A r \in sweep.done : task[r].kind = "manual"
CountersKept == \A j \in JobIds : Counters(cron_jobs'[j]) = Counters(cron_jobs[j])
C38_ManualRunLeavesCounters ==
    /\ [](ManualRows /\ TriggersInactive)
    /\ [][(SweepOfManual \/ \E r \in RunIds : ManualExecutorSteps(r)) => CountersKept]_vars

\* C38 witness: a triggered run has been reclaimed by the sweep while its
\* job definition was inactive, and the definition has counted nothing.
C38_Witness ==
    \E r \in RunIds, j \in JobIds :
        /\ task[r].kind = "manual"
        /\ cron_runs[r].job_id = 0
        /\ cron_runs[r].status = "failed"
        /\ cron_runs[r].error_message = StuckMessage
        /\ sweep.pc = "idle"
        /\ ~cron_jobs[j].is_active
        /\ Counters(cron_jobs[j]) = Counters(InitialJob)

\* C39.  In every state a stored run whose status is failed has a completed_at
\* and an error_message, and a stored run whose status is success has a
\* completed_at and no error_message.
C39_EndedRunsAreComplete ==
    \A r \in RunIds :
        cron_runs[r].present =>
            /\ cron_runs[r].status = "failed" =>
                  cron_runs[r].completed_at # Null /\ cron_runs[r].error_message # NoneMsg
            /\ cron_runs[r].status = "success" =>
                  cron_runs[r].completed_at # Null /\ cron_runs[r].error_message = NoneMsg

\* C40 as stated.  Once a toggle_cron_job has deactivated a job and a second
\* one has re-activated it, the job's flag is true, the scheduler does not
\* hold the job, trigger_cron_job still starts a run of it, and no scheduled
\* run of the job is created (the scheduler is not started again here).
Reactivated(j) ==
    /\ toggle.pc = "idle"
    /\ toggle.code = "200"
    /\ toggle.job = j
    /\ toggle.cur.is_active
ScheduledRunCreated(j) ==
    \E r \in RunIds :
        /\ ~cron_runs[r].present
        /\ cron_runs'[r].present
        /\ cron_runs'[r].triggered_by = "cron"
        /\ cron_runs'[r].job_id = j
ActiveButDetached ==
    \A j \in JobIds :
        Reactivated(j) =>
            /\ cron_jobs[j].is_active
            /\ j \notin scheduler
            /\ NextRunId \in 1..FullRuns /\ task[NextRunId].pc = "idle"
               => ENABLED trigger_cron_job(NextRunId, j)
C40_NoScheduledRunAfterReactivation ==
    /\ []ActiveButDetached
    /\ [][\A j \in JobIds : Reactivated(j) => ~ScheduledRunCreated(j)]_vars

\* C40 as amended.  The same, but what does not happen after the
\* re-activation is the start of a scheduled call of run_cron_job for the
\* job; a call that had passed its lookup of the definition before the
\* deactivation may still insert its run.
C40_NoScheduledCallAfterReactivation ==
    /\ []ActiveButDetached
    /\ [][\A j \in JobIds :
            /\ Reactivated(j) => ~(fire.pc = "idle" /\ fire'.pc # "idle" /\ fire'.job = j)
            /\ Reactivated(j) /\ ScheduledRunCreated(j) => fire.pc = "insert" /\ fire.job = j]_vars

\* C40 witness: the job was deactivated and re-activated, is held by no
\* trigger, and a run of it has been started by hand since.
C40_Witness ==
    \E j \in JobIds, r \in RunIds :
        /\ Reactivated(j)
        /\ cron_jobs[j].is_active
        /\ j \notin scheduler
        /\ task[r].kind = "manual"
        /\ cron_runs[r].present
        /\ fire.pc = "idle"
====
